---------------------------- MODULE Spec2Model ----------------------------
(***************************************************************************)
(* Model of the KakaoTalk chat-export parser (src/scripts/parser.js) as    *)
(* the viewer uses it (src/scripts/main.js): one KakaoTalkParser instance, *)
(* constructed once, whose parse method is called for every uploaded file. *)
(*                                                                         *)
(* The specifications share the variables.  Spec: parse calls made one     *)
(* after the other on the one parser.  SpecClassify: direct calls of       *)
(* detectMessageType.  SpecStats: direct calls of getStats.  SpecViewer:   *)
(* the viewer's processFile calls, which may overlap at their file reads,  *)
(* with the renderer, the user buttons and the search.  SpecGuarded: the   *)
(* later viewer (src/unnamed/part_000), whose processFile is guarded by    *)
(* isProcessingFile; SpecGuardedFair adds the progress of file reads and   *)
(* of running code.  SpecSearch: the search box, its delayed completion    *)
(* and the calendar; SpecSearchFair adds the firing of timeouts.           *)
(* SpecBubbles: the viewer with files that have runs of messages of one    *)
(* sender.  SpecFont: the font-size buttons of the later viewer and the    *)
(* size kept in localStorage over page loads.                              *)
(*                                                                         *)
(* Strings.  A JavaScript string is modelled as a sequence of tokens.  A   *)
(* token is either one character ("[", "]", " ", ":", ".", a digit, the    *)
(* tab "\t", the carriage return "\r", the line feed "\n") or one          *)
(* indivisible word.  The Korean marker phrases the code looks for are     *)
(* words, written here in romanised form because a TLA+ string holds only  *)
(* ASCII; the definitions below name each of them.  includes, startsWith,  *)
(* replace, trim and the regular expressions of the code are computed on   *)
(* token sequences the way the code computes them on characters.           *)
(***************************************************************************)
EXTENDS Integers, Sequences, FiniteSets, TLC

VARIABLES
    chatData,        \* this.chatData of the parser instance: title, saveDate, messages
    lines,           \* parse: const lines = content.split('\n')
    i,               \* parse: the loop index, 1-based (0 while no call is running)
    currentDate,     \* parse: let currentDate
    currentMessage,  \* parse: let currentMessage (Null or the open message)
    pc,              \* "idle" (no call running), "loop" (inside the for loop), "done" (returned)
    texts,           \* history: the line sequence of every parse call so far, in call order
    returned,        \* history: a snapshot of the value of each returned ChatLog at its return
    origin,          \* history: for every element of chatData.messages, <<call, line>> of the line it came from
    curOrigin,       \* history: <<call, line>> of the header line of currentMessage
    content,         \* detectMessageType: the argument of a direct call
    kind,            \* detectMessageType: the result of a direct call ("none" before the call)
    stats,           \* history: the value returned by each direct getStats call, in call order
    files,           \* history: for every processFile call, its text and the calls awaiting a read when it began
    pending,         \* the processFile calls suspended at await this.readFile(file)
    running,         \* the processFile call between its parse and its finally block (0: none)
    currentChatData, \* this.currentChatData of the viewer: "null" or "chatData", the parser's own object
    loading,         \* showLoading: whether the loading indicator is shown
    error,           \* showError / hideError: the message shown ("hidden": none)
    performed,       \* history: for every processFile call, the operations it has performed, in order
    obtained,        \* history: for every processFile call, the value of the ChatLog parse handed it
    availableDates,  \* this.availableDates of the viewer
    users,           \* this.users of the renderer
    currentUser,     \* this.currentUser of the renderer
    dom,             \* the children of the chat-messages container
    results,         \* the value returned by the last searchMessages call
    chatInfo,        \* the chat-info panel: [hidden |-> TRUE] or the title, save date and message count shown
    containerShown,  \* whether the chat container is shown
    timers,          \* the re-render timeouts of user-button clicks that have not fired yet
    buttons,         \* the user buttons: the names they carry and whether they are disabled
    isProcessingFile,\* this.isProcessingFile of the viewer with the duplicate-processing guard
    calendarShown,   \* whether #calendar-popup is without the class 'hidden'
    resultsShown,    \* whether #search-results is without the class 'hidden'
    searchLoading,   \* whether #search-loading is without the class 'hidden'
    resultsContainer,\* what #search-results holds: "prompt", "none" (the no-results notice) or "list"
    searchTimers,    \* the queries of the handleSearch timeouts that have not fired yet, oldest first
    searched,        \* history: the last searchMessages call of a timeout: query, ChatLog, outcome
    calendarMonth,   \* the month of this.currentCalendarDate (of the year 2025)
    calendarGrid,    \* the date keys of the day elements that carry a click listener
    scrolled,        \* history: the last scrollToDate call: its key and the child scrolled to
    currentFontSize, \* this.currentFontSize of the viewer
    fontClass,       \* the font-size class of #chat-messages (<<>>: none added by the viewer)
    indicatorText,   \* the textContent of #font-size-indicator (<<>>: as the page has it)
    fontStorage,     \* the item 'kakao-chat-font-size' of localStorage (<<>>: no item)
    fontButtons,     \* the two font-size buttons: disabled, and which of them are dimmed
    fontLoading,     \* whether #font-size-loading is without the class 'hidden'
    indicatorColor,  \* the colour of the indicator: "page", "green" or "gray"
    fontTimers,      \* the font-size timeouts that have not fired yet
    indicatorTimers, \* the timeouts of the indicator's animation that have not fired yet
    fontLoaded,      \* history: the item of localStorage read by the last construction
    lastFontCall     \* history: the last font-size operation: "none", "load", "decrease", "increase", "timeout" or "animation"

parserVars == <<chatData, lines, i, currentDate, currentMessage, pc, texts, returned, origin, curOrigin>>
classifierVars == <<content, kind>>
statsVars == <<stats>>
searchVars == <<calendarShown, resultsShown, searchLoading, resultsContainer, searchTimers,
                searched, calendarMonth, calendarGrid, scrolled>>
fontVars == <<currentFontSize, fontClass, indicatorText, fontStorage, fontButtons, fontLoading,
              indicatorColor, fontTimers, indicatorTimers, fontLoaded, lastFontCall>>
uiVars == <<isProcessingFile, searchVars, fontVars>>
viewerVars == <<files, pending, running, currentChatData, loading, error, performed, obtained,
                availableDates, users, currentUser, dom, results, chatInfo, containerShown,
                timers, buttons, uiVars>>
vars == <<chatData, lines, i, currentDate, currentMessage, pc, texts, returned, origin, curOrigin,
          content, kind, stats, files, pending, running, currentChatData, loading, error,
          performed, obtained, availableDates, users, currentUser, dom, results, chatInfo,
          containerShown, timers, buttons, isProcessingFile, calendarShown, resultsShown,
          searchLoading, resultsContainer, searchTimers, searched, calendarMonth,
          calendarGrid, scrolled, currentFontSize, fontClass, indicatorText, fontStorage,
          fontButtons, fontLoading, indicatorColor, fontTimers, indicatorTimers, fontLoaded,
          lastFontCall>>

-----------------------------------------------------------------------------
(* Bounds *)

\* The total number of lines the parser reads, over all parse calls of a behaviour.
MaxLines == 3
\* The longest content handed directly to detectMessageType.
MaxContentLen == 3

-----------------------------------------------------------------------------
(* Tokens: the marker phrases of the code *)

\* '님과 카카오톡 대화' (parser.js:43), the room-title marker the line is searched for
TitleMarker == "nimgwa-kakaotalk-daehwa"
\* '저장한 날짜 :' (parser.js:53), the save-date marker the line must start with
SaveDateMarker == "jeojanghan-naljja-:"
\* '---------------' (parser.js:63), the run of fifteen dashes
DashRun == "---------------"
\* '년', '월', '일' (parser.js:63, 118)
Nyeon == "nyeon"
Wol == "wol"
Il == "il"
\* '사진', '동영상', '사진 여러 장' (parser.js:136)
Sajin == "sajin"
Dongyeongsang == "dongyeongsang"
SajinYeoreoJang == <<"sajin", " ", "yeoreo", " ", "jang">>
\* '이모티콘' (parser.js:141)
Imoticon == "imoticon"
\* '파일' of '파일:' (parser.js:151)
Pail == "pail"
\* '음성메시지' (parser.js:156)
Eumseong == "eumseong-mesiji"
\* '님이 들어왔습니다', '님이 나갔습니다', '대화방을 개설했습니다' (parser.js:161-163)
Deureowatseumnida == "nimi-deureowatseumnida"
Nagatseumnida == "nimi-nagatseumnida"
Gaeseolhaetseumnida == "daehwabangeul-gaeseolhaetseumnida"
\* the extensions of the file rule's regular expression (parser.js:151)
Extensions == {"pdf", "doc", "docx", "xls", "xlsx", "ppt", "pptx", "txt", "zip", "rar"}

-----------------------------------------------------------------------------
(* String operations of JavaScript, on token sequences *)

\* white space as String.prototype.trim and the regular expression class \s see it
IsSpace(c) == c \in {" ", "\t", "\r", "\n"}
\* a line terminator, which the regular expression dot does not match
IsLineTerminator(c) == c \in {"\r", "\n"}
IsDigit(c) == c \in {"0", "1", "2", "3", "4", "5", "6", "7", "8", "9"}

\* the /i flag of the file rule and toLowerCase: the lower-case form of a word
ToLower(c) ==
    CASE c = "PDF" -> "pdf"
      [] c = "ZIP" -> "zip"
      [] c = "TXT" -> "txt"
      [] c = "HELLO" -> "hello"
      [] OTHER -> c

RECURSIVE TrimStart(_)
TrimStart(s) ==
    IF s = <<>> THEN <<>>
    ELSE IF IsSpace(Head(s)) THEN TrimStart(Tail(s)) ELSE s

RECURSIVE TrimEnd(_)
TrimEnd(s) ==
    IF s = <<>> THEN <<>>
    ELSE IF IsSpace(s[Len(s)]) THEN TrimEnd(SubSeq(s, 1, Len(s) - 1)) ELSE s

\* String.prototype.trim
Trim(s) == TrimEnd(TrimStart(s))

\* String.prototype.startsWith
StartsWith(s, p) == Len(p) <= Len(s) /\ SubSeq(s, 1, Len(p)) = p

\* the positions at which p occurs in s
Occurrences(s, p) == {k \in 1..(Len(s) - Len(p) + 1) : SubSeq(s, k, k + Len(p) - 1) = p}

\* String.prototype.includes
Includes(s, p) == Occurrences(s, p) # {}

Min(S) == CHOOSE x \in S : \A y \in S : x <= y

\* String.prototype.replace with a string pattern: the first occurrence only
ReplaceFirst(s, p, r) ==
    IF ~Includes(s, p) THEN s
    ELSE LET k == Min(Occurrences(s, p))
         IN SubSeq(s, 1, k - 1) \o r \o SubSeq(s, k + Len(p), Len(s))

-----------------------------------------------------------------------------
(* detectMessageType (parser.js:132-168) *)

\* if (!content)
IsEmptyContent(c) == c = <<>>

\* content === '사진' || content === '동영상' || content === '사진 여러 장'
IsMedia(c) == c = <<Sajin>> \/ c = <<Dongyeongsang>> \/ c = SajinYeoreoJang

\* content === '이모티콘' || content.startsWith('이모티콘:')
IsEmoticon(c) == c = <<Imoticon>> \/ StartsWith(c, <<Imoticon, ":">>)

\* content.includes('http://') || content.includes('https://')
IsLink(c) == Includes(c, <<"http://">>) \/ Includes(c, <<"https://">>)

\* content.match(/\.(pdf|doc|docx|xls|xlsx|ppt|pptx|txt|zip|rar)$/i)
EndsWithExtension(c) ==
    /\ Len(c) >= 2
    /\ c[Len(c) - 1] = "."
    /\ ToLower(c[Len(c)]) \in Extensions

\* content.includes('파일:') || content.match(...)
IsFile(c) == Includes(c, <<Pail, ":">>) \/ EndsWithExtension(c)

\* content === '음성메시지' || content.includes('음성메시지')
IsVoice(c) == c = <<Eumseong>> \/ Includes(c, <<Eumseong>>)

\* content.includes('님이 들어왔습니다') || ... '님이 나갔습니다' || ... '대화방을 개설했습니다'
IsSystem(c) ==
    \/ Includes(c, <<Deureowatseumnida>>)
    \/ Includes(c, <<Nagatseumnida>>)
    \/ Includes(c, <<Gaeseolhaetseumnida>>)

\* detectMessageType with the file rule tested before the link rule
detectMessageTypeFileFirst(c) ==
    IF IsEmptyContent(c) THEN "empty"
    ELSE IF IsMedia(c) THEN "media"
    ELSE IF IsEmoticon(c) THEN "emoticon"
    ELSE IF IsFile(c) THEN "file"
    ELSE IF IsLink(c) THEN "link"
    ELSE IF IsVoice(c) THEN "voice"
    ELSE IF IsSystem(c) THEN "system"
    ELSE "text"

\* detectMessageType with the room-created phrase and the join phrase left out of the system rule
detectMessageTypeLeaveOnly(c) ==
    IF IsEmptyContent(c) THEN "empty"
    ELSE IF IsMedia(c) THEN "media"
    ELSE IF IsEmoticon(c) THEN "emoticon"
    ELSE IF IsLink(c) THEN "link"
    ELSE IF IsFile(c) THEN "file"
    ELSE IF IsVoice(c) THEN "voice"
    ELSE IF Includes(c, <<Nagatseumnida>>) THEN "system"
    ELSE "text"

detectMessageType(c) ==
    IF IsEmptyContent(c) THEN "empty"
    ELSE IF IsMedia(c) THEN "media"
    ELSE IF IsEmoticon(c) THEN "emoticon"
    ELSE IF IsLink(c) THEN "link"
    ELSE IF IsFile(c) THEN "file"
    ELSE IF IsVoice(c) THEN "voice"
    ELSE IF IsSystem(c) THEN "system"
    ELSE "text"

-----------------------------------------------------------------------------
(* The line patterns of parse (parser.js:25-101), on a trimmed line *)

\* if (!line)
IsBlank(line) == line = <<>>

\* line.includes('님과 카카오톡 대화')
IsTitleLine(line) == Includes(line, <<TitleMarker>>)

\* line.startsWith('저장한 날짜 :')
IsSaveDateLine(line) == StartsWith(line, <<SaveDateMarker>>)

\* line.startsWith('---------------') && line.includes('년') && line.includes('월')
IsDateLine(line) ==
    /\ StartsWith(line, <<DashRun>>)
    /\ Includes(line, <<Nyeon>>)
    /\ Includes(line, <<Wol>>)

\* the first position k >= from with s[k] = c, or 0
FirstAt(s, c, from) ==
    LET S == {k \in from..Len(s) : s[k] = c}
    IN IF S = {} THEN 0 ELSE Min(S)

\* the first position k >= from that holds no white space, or Len(s) + 1
SkipSpaces(s, from) ==
    LET S == {k \in from..Len(s) : ~IsSpace(s[k])}
    IN IF S = {} THEN Len(s) + 1 ELSE Min(S)

NoMatch == [ok |-> FALSE]

\* line.match(/^\[([^\]]+)\]\s*\[([^\]]+)\]\s*(.*)$/): the groups sender, time, content
messagePattern(line) ==
    IF Len(line) < 1 \/ line[1] # "[" THEN NoMatch
    ELSE LET a == FirstAt(line, "]", 2)                 \* closes the sender
         IN IF a < 3 THEN NoMatch
            ELSE LET b == SkipSpaces(line, a + 1)       \* opens the time
                 IN IF b > Len(line) \/ line[b] # "[" THEN NoMatch
                    ELSE LET c == FirstAt(line, "]", b + 1)   \* closes the time
                         IN IF c < b + 2 THEN NoMatch
                            ELSE LET d == SkipSpaces(line, c + 1)
                                     rest == SubSeq(line, d, Len(line))
                                 IN IF \E k \in 1..Len(rest) : IsLineTerminator(rest[k])
                                    THEN NoMatch
                                    ELSE [ok |-> TRUE,
                                          sender |-> SubSeq(line, 2, a - 1),
                                          time |-> SubSeq(line, b + 1, c - 1),
                                          content |-> rest]

\* the digits of (\d{1,2}) at position q when the token `after` follows them, or <<>>
OneOrTwoDigits(s, q, after) ==
    IF q + 2 <= Len(s) /\ IsDigit(s[q]) /\ IsDigit(s[q + 1]) /\ s[q + 2] = after
    THEN SubSeq(s, q, q + 1)
    ELSE IF q + 1 <= Len(s) /\ IsDigit(s[q]) /\ s[q + 1] = after
    THEN SubSeq(s, q, q)
    ELSE <<>>

\* the end of the run of \S that starts at position q (q - 1 when there is none)
NonSpaceRunEnd(s, q) ==
    LET S == {k \in q..Len(s) : IsSpace(s[k])}
    IN IF S = {} THEN Len(s) ELSE Min(S) - 1

\* one attempt of /(\d{4})년\s*(\d{1,2})월\s*(\d{1,2})일\s*(\S+)/ at position p
DateMatchAt(s, p) ==
    IF ~(p + 4 <= Len(s) /\ (\A k \in p..(p + 3) : IsDigit(s[k])) /\ s[p + 4] = Nyeon)
    THEN NoMatch
    ELSE LET q1 == SkipSpaces(s, p + 5)
             month == OneOrTwoDigits(s, q1, Wol)
         IN IF month = <<>> THEN NoMatch
            ELSE LET q2 == SkipSpaces(s, q1 + Len(month) + 1)
                     day == OneOrTwoDigits(s, q2, Il)
                 IN IF day = <<>> THEN NoMatch
                    ELSE LET q3 == SkipSpaces(s, q2 + Len(day) + 1)
                             e == NonSpaceRunEnd(s, q3)
                         IN IF e < q3 THEN NoMatch
                            ELSE [ok |-> TRUE,
                                  year |-> SubSeq(s, p, p + 3),
                                  month |-> month,
                                  day |-> day,
                                  dayOfWeek |-> SubSeq(s, q3, e)]

\* extractDate: `${year}년 ${month}월 ${day}일 ${dayOfWeek}` of the leftmost match, else the line
extractDate(line) ==
    LET P == {p \in 1..Len(line) : DateMatchAt(line, p).ok}
    IN IF P = {} THEN line
       ELSE LET m == DateMatchAt(line, Min(P))
            IN m.year \o <<Nyeon, " ">> \o m.month \o <<Wol, " ">>
                 \o m.day \o <<Il, " ">> \o m.dayOfWeek

\* line.replace(' 님과 카카오톡 대화', '')
extractTitle(line) == ReplaceFirst(line, <<" ", TitleMarker>>, <<>>)

\* line.replace('저장한 날짜 : ', '')
extractSaveDate(line) == ReplaceFirst(line, <<SaveDateMarker, " ">>, <<>>)

-----------------------------------------------------------------------------
(* Inputs: the lines an export text is made of *)

LBlank == <<>>
\* "민수 님과 카카오톡 대화"
LTitleMinsu == <<"minsu", " ", TitleMarker>>
\* "유나 님과 카카오톡 대화", read with a trailing carriage return
LTitleYuna == <<"yuna", " ", TitleMarker, "\r">>
\* "저장한 날짜 : 2025-05-20"
LSaveDate == <<SaveDateMarker, " ", "2025-05-20">>
\* "저장한 날짜 : 2025-06-01"
LSaveDateLater == <<SaveDateMarker, " ", "2025-06-01">>
\* "--------------- 2025년 5월 20일 화요일 ---------------"
LDate == <<DashRun, " ", "2", "0", "2", "5", Nyeon, " ", "5", Wol, " ",
           "2", "0", Il, " ", "hwayoil", " ", DashRun>>
\* "[A] [10:00] hello"
LHello == <<"[", "A", "]", " ", "[", "10:00", "]", " ", "hello">>
\* "[B] [10:01] 사진"
LSajin == <<"[", "B", "]", " ", "[", "10:01", "]", " ", Sajin>>
\* "[B] [10:02]", a header with an empty remainder
LEmptyHeader == <<"[", "B", "]", " ", "[", "10:02", "]">>
\* "world"
LWorld == <<"world">>
\* "  https://a.pdf ", a line with white space around it
LLink == <<" ", " ", "https://", "a", ".", "pdf", " ">>

\* "철수님과 카카오톡 대화": the marker phrase with no space before it
LTitleNoSpace == <<"cheolsu", TitleMarker>>
\* "저장한 날짜 : ": the marker with no date after it
LSaveDateBare == <<SaveDateMarker, " ">>
\* "--------------- 2025년 5월 ---------------": a separator with no day
LDateNoDay == <<DashRun, " ", "2", "0", "2", "5", Nyeon, " ", "5", Wol, " ", DashRun>>
\* "[A] [10:00] 민수 님과 카카오톡 대화": a message whose content holds the marker phrase
LTitleInMessage == <<"[", "A", "]", " ", "[", "10:00", "]", " ", "minsu", " ", TitleMarker>>

LineSet == {LBlank, LTitleMinsu, LTitleYuna, LSaveDate, LSaveDateLater, LDate,
            LHello, LSajin, LEmptyHeader, LWorld, LLink,
            LTitleNoSpace, LSaveDateBare, LDateNoDay, LTitleInMessage}

\* content.split('\n') of a text: every non-empty sequence of lines is the split of
\* exactly one text, the lines joined by "\n" (the empty text splits into one blank line)
Texts(n) == UNION {[1..k -> LineSet] : k \in 1..n}

RECURSIVE TotalLen(_)
TotalLen(ts) == IF ts = <<>> THEN 0 ELSE Len(Head(ts)) + TotalLen(Tail(ts))

-----------------------------------------------------------------------------
(* KakaoTalkParser *)

\* currentMessage = null
Null == [type |-> "null"]

\* constructor (parser.js:7-13)
NewChatData == [title |-> <<>>, saveDate |-> <<>>, messages |-> <<>>]

\* LineRule with the message pattern tested before the title marker
LineRuleHeaderFirst(line) ==
    IF IsBlank(line) THEN "blank"
    ELSE IF messagePattern(line).ok THEN "header"
    ELSE IF IsTitleLine(line) THEN "title"
    ELSE IF IsSaveDateLine(line) THEN "saveDate"
    ELSE IF IsDateLine(line) THEN "date"
    ELSE "other"

\* the rule of the loop body that handles a trimmed line, by the order of its tests
LineRule(line) ==
    IF IsBlank(line) THEN "blank"
    ELSE IF IsTitleLine(line) THEN "title"
    ELSE IF IsSaveDateLine(line) THEN "saveDate"
    ELSE IF IsDateLine(line) THEN "date"
    ELSE IF messagePattern(line).ok THEN "header"
    ELSE "other"

\* const line = lines[i].trim(), inside the loop
InLoop == pc = "loop" /\ i <= Len(lines)
CurLine == Trim(lines[i])
CurCall == Len(texts)

\* if (currentMessage) this.chatData.messages.push(currentMessage)
Closed == IF currentMessage # Null THEN Append(chatData.messages, currentMessage)
          ELSE chatData.messages
ClosedOrigin == IF currentMessage # Null THEN Append(origin, curOrigin) ELSE origin

\* parse(content), up to the loop (parser.js:20-23), in the parser's variables
StartParse(text) ==
    /\ pc \in {"idle", "done"}
    /\ lines' = text
    /\ i' = 1
    /\ currentDate' = <<>>
    /\ currentMessage' = Null
    /\ curOrigin' = <<0, 0>>
    /\ texts' = Append(texts, text)
    /\ pc' = "loop"
    /\ UNCHANGED <<chatData, returned, origin>>

\* a parse call made directly on the parser
Parse(text) ==
    /\ StartParse(text)
    /\ UNCHANGED <<classifierVars, statsVars, viewerVars>>

\* BlankLine with the blank line dropped instead of appended to the open message
BlankLineSkipped ==
    /\ InLoop
    /\ LineRule(CurLine) = "blank"
    /\ i' = i + 1
    /\ UNCHANGED <<chatData, lines, currentDate, currentMessage, pc, texts, returned,
                   origin, curOrigin, classifierVars, statsVars, viewerVars>>

\* parser.js:29-36
BlankLine ==
    /\ InLoop
    /\ LineRule(CurLine) = "blank"
    /\ currentMessage' =
          IF currentMessage # Null
          THEN [currentMessage EXCEPT !.content = @ \o <<"\n">>, !.raw = @ \o <<"\n">>]
          ELSE currentMessage
    /\ i' = i + 1
    /\ UNCHANGED <<chatData, lines, currentDate, pc, texts, returned, origin, curOrigin,
                   classifierVars, statsVars, viewerVars>>

\* TitleLine with the open message left open
TitleLineKeepsOpen ==
    /\ InLoop
    /\ LineRule(CurLine) = "title"
    /\ chatData' = [chatData EXCEPT !.title = extractTitle(CurLine)]
    /\ i' = i + 1
    /\ UNCHANGED <<lines, currentDate, currentMessage, pc, texts, returned, origin, curOrigin,
                   classifierVars, statsVars, viewerVars>>

\* parser.js:43-50
TitleLine ==
    /\ InLoop
    /\ LineRule(CurLine) = "title"
    /\ chatData' = [chatData EXCEPT !.messages = Closed, !.title = extractTitle(CurLine)]
    /\ origin' = ClosedOrigin
    /\ currentMessage' = Null
    /\ i' = i + 1
    /\ UNCHANGED <<lines, currentDate, pc, texts, returned, curOrigin, classifierVars, statsVars, viewerVars>>

\* parser.js:53-60
SaveDateLine ==
    /\ InLoop
    /\ LineRule(CurLine) = "saveDate"
    /\ chatData' = [chatData EXCEPT !.messages = Closed,
                                    !.saveDate = extractSaveDate(CurLine)]
    /\ origin' = ClosedOrigin
    /\ currentMessage' = Null
    /\ i' = i + 1
    /\ UNCHANGED <<lines, currentDate, pc, texts, returned, curOrigin, classifierVars, statsVars, viewerVars>>

\* DateLine with the DateMarker pushed before the open message is closed
DateLineMarkerFirst ==
    /\ InLoop
    /\ LineRule(CurLine) = "date"
    /\ currentDate' = extractDate(CurLine)
    /\ LET marker == [type |-> "date", date |-> extractDate(CurLine), raw |-> CurLine]
           marked == Append(chatData.messages, marker)
       IN /\ chatData' = [chatData EXCEPT !.messages =
                IF currentMessage # Null THEN Append(marked, currentMessage) ELSE marked]
          /\ origin' = IF currentMessage # Null
                       THEN Append(Append(origin, <<CurCall, i>>), curOrigin)
                       ELSE Append(origin, <<CurCall, i>>)
    /\ currentMessage' = Null
    /\ i' = i + 1
    /\ UNCHANGED <<lines, pc, texts, returned, curOrigin, classifierVars, statsVars, viewerVars>>

\* parser.js:63-75
DateLine ==
    /\ InLoop
    /\ LineRule(CurLine) = "date"
    /\ currentDate' = extractDate(CurLine)
    /\ chatData' = [chatData EXCEPT !.messages =
          Append(Closed, [type |-> "date", date |-> extractDate(CurLine), raw |-> CurLine])]
    /\ origin' = Append(ClosedOrigin, <<CurCall, i>>)
    /\ currentMessage' = Null
    /\ i' = i + 1
    /\ UNCHANGED <<lines, pc, texts, returned, curOrigin, classifierVars, statsVars, viewerVars>>

\* parser.js:77-93
HeaderLine ==
    /\ InLoop
    /\ LineRule(CurLine) = "header"
    /\ chatData' = [chatData EXCEPT !.messages = Closed]
    /\ origin' = ClosedOrigin
    /\ LET m == messagePattern(CurLine)
       IN currentMessage' = [type |-> "message",
                             sender |-> Trim(m.sender),
                             time |-> Trim(m.time),
                             content |-> Trim(m.content),
                             date |-> currentDate,
                             messageType |-> detectMessageType(Trim(m.content)),
                             raw |-> CurLine]
    /\ curOrigin' = <<CurCall, i>>
    /\ i' = i + 1
    /\ UNCHANGED <<lines, currentDate, pc, texts, returned, classifierVars, statsVars, viewerVars>>

\* ContinuationLine with the messageType taken from the appended line alone
ContinuationLineClassifiesLine ==
    /\ InLoop
    /\ LineRule(CurLine) = "other"
    /\ currentMessage # Null
    /\ currentMessage' = [currentMessage EXCEPT
                             !.content = @ \o <<"\n">> \o CurLine,
                             !.raw = @ \o <<"\n">> \o CurLine,
                             !.messageType = detectMessageType(CurLine)]
    /\ i' = i + 1
    /\ UNCHANGED <<chatData, lines, currentDate, pc, texts, returned, origin, curOrigin,
                   classifierVars, statsVars, viewerVars>>

\* parser.js:94-100
ContinuationLine ==
    /\ InLoop
    /\ LineRule(CurLine) = "other"
    /\ currentMessage # Null
    /\ LET grown == currentMessage.content \o <<"\n">> \o CurLine
       IN currentMessage' = [currentMessage EXCEPT
                                !.content = grown,
                                !.raw = @ \o <<"\n">> \o CurLine,
                                !.messageType = detectMessageType(grown)]
    /\ i' = i + 1
    /\ UNCHANGED <<chatData, lines, currentDate, pc, texts, returned, origin, curOrigin,
                   classifierVars, statsVars, viewerVars>>

\* DiscardLine with a message made up from the unparseable line
DiscardLineFabricates ==
    /\ InLoop
    /\ LineRule(CurLine) = "other"
    /\ currentMessage = Null
    /\ currentMessage' = [type |-> "message",
                          sender |-> <<>>,
                          time |-> <<>>,
                          content |-> CurLine,
                          date |-> currentDate,
                          messageType |-> detectMessageType(CurLine),
                          raw |-> CurLine]
    /\ curOrigin' = <<CurCall, i>>
    /\ i' = i + 1
    /\ UNCHANGED <<chatData, lines, currentDate, pc, texts, returned, origin,
                   classifierVars, statsVars, viewerVars>>

\* DiscardLine with the current date forgotten
DiscardLineClearsDate ==
    /\ InLoop
    /\ LineRule(CurLine) = "other"
    /\ currentMessage = Null
    /\ currentDate' = <<>>
    /\ i' = i + 1
    /\ UNCHANGED <<chatData, lines, currentMessage, pc, texts, returned, origin, curOrigin,
                   classifierVars, statsVars, viewerVars>>

\* parser.js:77-100 with neither branch taken: the line is dropped
DiscardLine ==
    /\ InLoop
    /\ LineRule(CurLine) = "other"
    /\ currentMessage = Null
    /\ i' = i + 1
    /\ UNCHANGED <<chatData, lines, currentDate, currentMessage, pc, texts, returned,
                   origin, curOrigin, classifierVars, statsVars, viewerVars>>

\* Return with the message still open at the end of input dropped
ReturnDropsOpen ==
    /\ pc = "loop"
    /\ i > Len(lines)
    /\ returned' = Append(returned, [text |-> lines, log |-> chatData])
    /\ pc' = "done"
    /\ lines' = <<>>
    /\ i' = 0
    /\ currentDate' = <<>>
    /\ currentMessage' = Null
    /\ curOrigin' = <<0, 0>>
    /\ UNCHANGED <<chatData, origin, texts, classifierVars, statsVars, viewerVars>>

\* parser.js:103-108: the last message is pushed and this.chatData itself is returned;
\* the locals of the call are gone
Return ==
    /\ pc = "loop"
    /\ i > Len(lines)
    /\ chatData' = [chatData EXCEPT !.messages = Closed]
    /\ origin' = ClosedOrigin
    /\ returned' = Append(returned, [text |-> lines, log |-> chatData'])
    /\ pc' = "done"
    /\ lines' = <<>>
    /\ i' = 0
    /\ currentDate' = <<>>
    /\ currentMessage' = Null
    /\ curOrigin' = <<0, 0>>
    /\ UNCHANGED <<texts, classifierVars, statsVars, viewerVars>>

\* the month of new Date() when the viewer is constructed (main.js:487): May 2025
TodayMonth == 5

\* the viewer and its renderer as their constructors leave them (main.js:7-13, 39,
\* 487; renderer.js:7-19); the page as it is loaded shows the search prompt and
\* neither the calendar nor the search-loading indicator
ViewerInit ==
    /\ files = <<>>
    /\ pending = {}
    /\ running = 0
    /\ currentChatData = "null"
    /\ loading = FALSE
    /\ error = "hidden"
    /\ performed = <<>>
    /\ obtained = <<>>
    /\ availableDates = {}
    /\ users = <<>>
    /\ currentUser = <<>>
    /\ dom = <<>>
    /\ results = <<>>
    /\ chatInfo = [hidden |-> TRUE]
    /\ containerShown = FALSE
    /\ timers = 0
    /\ buttons = [names |-> <<>>, disabled |-> FALSE]
    /\ isProcessingFile = FALSE
    /\ calendarShown = FALSE
    /\ resultsShown = TRUE
    /\ searchLoading = FALSE
    /\ resultsContainer = "prompt"
    /\ searchTimers = <<>>
    /\ searched = Null
    /\ calendarMonth = TodayMonth
    /\ calendarGrid = {}
    /\ scrolled = Null
    /\ currentFontSize = 14
    /\ fontClass = <<>>
    /\ indicatorText = <<>>
    /\ fontStorage = <<>>
    /\ fontButtons = [disabled |-> FALSE, decreaseDimmed |-> FALSE, increaseDimmed |-> FALSE]
    /\ fontLoading = FALSE
    /\ indicatorColor = "page"
    /\ fontTimers = 0
    /\ indicatorTimers = 0
    /\ fontLoaded = <<>>
    /\ lastFontCall = "none"

\* new KakaoTalkParser() in the viewer's constructor (main.js:8)
Init ==
    /\ chatData = NewChatData
    /\ lines = <<>>
    /\ i = 0
    /\ currentDate = <<>>
    /\ currentMessage = Null
    /\ pc = "idle"
    /\ texts = <<>>
    /\ returned = <<>>
    /\ origin = <<>>
    /\ curOrigin = <<0, 0>>
    /\ content = <<>>
    /\ kind = "none"
    /\ stats = <<>>
    /\ ViewerInit

\* this.parser.parse(content) for an uploaded file (main.js:108)
Upload == \E text \in Texts(MaxLines - TotalLen(texts)) : Parse(text)

Next ==
    \/ Upload
    \/ BlankLine
    \/ TitleLine
    \/ SaveDateLine
    \/ DateLine
    \/ HeaderLine
    \/ ContinuationLine
    \/ DiscardLine
    \/ Return

\* the words and characters the contents handed to detectMessageType are made of
ContentTokens == {Sajin, Dongyeongsang, Imoticon, ":", "http://", "https://", Pail, ".",
                  "pdf", "PDF", Eumseong, Deureowatseumnida, Nagatseumnida,
                  "geunyang", " ", "\n"}

\* "사진 여러 장", "https://example.com", "철수 님이 들어왔습니다.", "그냥 텍스트",
\* "이모티콘:https://a.pdf", "대화방을 개설했습니다"
ExampleContents == {SajinYeoreoJang,
                    <<"https://", "example", ".", "com">>,
                    <<"cheolsu", " ", Deureowatseumnida, ".">>,
                    <<"geunyang", " ", "tekseuteu">>,
                    <<Imoticon, ":", "https://", "a", ".", "pdf">>,
                    <<Gaeseolhaetseumnida>>}

Contents == UNION {[1..k -> ContentTokens] : k \in 0..MaxContentLen} \cup ExampleContents

\* a direct call of detectMessageType on any content
InitClassify ==
    /\ chatData = NewChatData
    /\ lines = <<>>
    /\ i = 0
    /\ currentDate = <<>>
    /\ currentMessage = Null
    /\ pc = "idle"
    /\ texts = <<>>
    /\ returned = <<>>
    /\ origin = <<>>
    /\ curOrigin = <<0, 0>>
    /\ content \in Contents
    /\ kind = "none"
    /\ stats = <<>>
    /\ ViewerInit

Classify ==
    /\ kind = "none"
    /\ kind' = detectMessageType(content)
    /\ UNCHANGED <<parserVars, content, statsVars, viewerVars>>

NextClassify == Classify

SpecClassify == InitClassify /\ [][NextClassify]_vars

Spec == Init /\ [][Next]_vars

-----------------------------------------------------------------------------
(* Numbers.  A JavaScript number is an IEEE 754 double: a division or a    *)
(* multiplication gives the exact result rounded to 53 significant bits,   *)
(* ties to even.  A double is modelled as [m, e] with m a sequence of bits *)
(* (most significant first), standing for the integer m times 2^e.         *)

\* the significant bits of a double
Mantissa == 53

Zeros(n) == [k \in 1..n |-> 0]

RECURSIVE StripZeros(_)
StripZeros(b) == IF b # <<>> /\ Head(b) = 0 THEN StripZeros(Tail(b)) ELSE b

RECURSIVE ToNat(_)
ToNat(b) == IF b = <<>> THEN 0 ELSE 2 * ToNat(SubSeq(b, 1, Len(b) - 1)) + b[Len(b)]

RECURSIVE ToBits(_)
ToBits(n) == IF n = 0 THEN <<>> ELSE Append(ToBits(n \div 2), n % 2)

\* b + 1: the last 0 becomes 1 and the 1s after it become 0
Increment(b) ==
    LET Z == {k \in 1..Len(b) : b[k] = 0}
    IN IF Z = {} THEN <<1>> \o Zeros(Len(b))
       ELSE LET p == CHOOSE k \in Z : \A j \in Z : j <= k
            IN SubSeq(b, 1, p - 1) \o <<1>> \o Zeros(Len(b) - p)

\* b * k for a small integer k, bit by bit from the last one, carry[j] being the
\* carry out of the last j bits
TimesSmall(b, k) ==
    LET n == Len(b)
        carry[j \in 0..n] == IF j = 0 THEN 0 ELSE (b[n - j + 1] * k + carry[j - 1]) \div 2
    IN ToBits(carry[n]) \o [j \in 1..n |-> (b[j] * k + carry[n - j]) % 2]

\* round to nearest, ties to even: the exact value is the integer b (no leading
\* zero) followed by more bits that are not all 0 exactly if sticky; the result is
\* the kept bits and the number of bits of b dropped
RoundToDouble(b, sticky) ==
    IF Len(b) <= Mantissa THEN [m |-> b, drop |-> 0]
    ELSE LET keep == SubSeq(b, 1, Mantissa)
             guard == b[Mantissa + 1]
             more == sticky \/ \E k \in (Mantissa + 2)..Len(b) : b[k] = 1
             up == guard = 1 /\ (more \/ keep[Mantissa] = 1)
         IN [m |-> IF up THEN Increment(keep) ELSE keep, drop |-> Len(b) - Mantissa]

\* long division: the bits of the quotient after the binary point, up to one bit
\* more than a double keeps, and whether a remainder is left
RECURSIVE FractionBits(_, _, _)
FractionBits(r, d, acc) ==
    IF r = 0 \/ Len(StripZeros(acc)) = Mantissa + 1 THEN [bits |-> acc, sticky |-> r # 0]
    ELSE FractionBits((2 * r) % d, d, Append(acc, (2 * r) \div d))

\* n / d of two integers, 0 < n <= d
Divide(n, d) ==
    LET f == FractionBits(n % d, d, <<n \div d>>)
        r == RoundToDouble(StripZeros(f.bits), f.sticky)
    IN [m |-> r.m, e |-> r.drop - (Len(f.bits) - 1)]

\* x * k of a double and a small integer
Multiply(x, k) ==
    LET r == RoundToDouble(StripZeros(TimesSmall(x.m, k)), FALSE)
    IN [m |-> r.m, e |-> x.e + r.drop]

\* Math.round(x) of a double 0 <= x < 2^31: the integer nearest to x, the larger
\* one if x is halfway between two
MathRound(x) ==
    IF x.e >= 0 THEN ToNat(x.m \o Zeros(x.e))
    ELSE LET f == 0 - x.e
             b == Zeros(f + 1 - Len(x.m)) \o x.m
             n == Len(b)
         IN ToNat(SubSeq(b, 1, n - f)) + b[n - f + 1]

-----------------------------------------------------------------------------
(* KakaoTalkParser.getStats *)

\* the largest numbers of messages of the senders A and B, and of date separators,
\* in a ChatLog handed to a direct getStats call
MaxFromA == 23
MaxFromB == 17
MaxDays == 1
\* the direct getStats calls of a behaviour
MaxStatsCalls == 2

\* array.filter(msg => msg.type === type)
OfType(messages, type) == SelectSeq(messages, LAMBDA msg : msg.type = type)

\* new Set(messages.map(msg => msg.sender))
Senders(messages) == {messages[k].sender : k \in 1..Len(messages)}

\* messages.filter(msg => msg.sender === sender).length
CountFrom(messages, sender) == Cardinality({k \in 1..Len(messages) : messages[k].sender = sender})

\* getSenderStats(messages, senders) (parser.js:192-202)
getSenderStats(messages, senders) ==
    [sender \in senders |->
        [count |-> CountFrom(messages, sender),
         percentage |-> MathRound(Multiply(Divide(CountFrom(messages, sender),
                                                  Len(messages)), 100))]]

\* getStats() (parser.js:174-184), on the chatData of the parser
getStats(data) ==
    LET messages == OfType(data.messages, "message")
        senders == Senders(messages)
    IN [totalMessages |-> Len(messages),
        totalDays |-> Len(OfType(data.messages, "date")),
        participants |-> Cardinality(senders),
        senderStats |-> getSenderStats(messages, senders)]

\* getStats with the filter done in place: the date separators leave chatData.messages
GetStatsInPlace ==
    /\ pc \in {"idle", "done"}
    /\ Len(stats) < MaxStatsCalls
    /\ stats' = Append(stats, getStats(chatData))
    /\ chatData' = [chatData EXCEPT !.messages = OfType(chatData.messages, "message")]
    /\ UNCHANGED <<lines, i, currentDate, currentMessage, pc, texts, returned, origin,
                   curOrigin, classifierVars, viewerVars>>

\* a direct call of getStats: filter, map, Set and the spread build new arrays
GetStats ==
    /\ pc \in {"idle", "done"}
    /\ Len(stats) < MaxStatsCalls
    /\ stats' = Append(stats, getStats(chatData))
    /\ UNCHANGED <<parserVars, classifierVars, viewerVars>>

\* the events that parse makes of "--------------- 2025년 5월 20일 화요일 ---------------",
\* of "[A] [10:00] hello" and of "[B] [10:01] 사진" under that date
DateEvent == [type |-> "date", date |-> extractDate(Trim(LDate)), raw |-> Trim(LDate)]
MessageEvent(line, date) ==
    LET m == messagePattern(Trim(line))
    IN [type |-> "message", sender |-> Trim(m.sender), time |-> Trim(m.time),
        content |-> Trim(m.content), date |-> date,
        messageType |-> detectMessageType(Trim(m.content)), raw |-> Trim(line)]

\* the ChatLog of a file of d date separators, the last followed by a messages of A
\* and then b messages of B
LogOf(d, a, b) ==
    [title |-> <<>>, saveDate |-> <<>>,
     messages |-> [k \in 1..d |-> DateEvent]
                  \o [k \in 1..a |-> MessageEvent(LHello, IF d > 0 THEN DateEvent.date ELSE <<>>)]
                  \o [k \in 1..b |-> MessageEvent(LSajin, IF d > 0 THEN DateEvent.date ELSE <<>>)]]

\* a parser that has parsed one such file, before any direct getStats call
InitStats ==
    /\ chatData \in {LogOf(d, a, b) : d \in 0..MaxDays, a \in 0..MaxFromA, b \in 0..MaxFromB}
    /\ lines = <<>>
    /\ i = 0
    /\ currentDate = <<>>
    /\ currentMessage = Null
    /\ pc = "done"
    /\ texts = <<>>
    /\ returned = <<>>
    /\ origin = <<>>
    /\ curOrigin = <<0, 0>>
    /\ content = <<>>
    /\ kind = "none"
    /\ stats = <<>>
    /\ ViewerInit

NextStats == GetStats

SpecStats == InitStats /\ [][NextStats]_vars

-----------------------------------------------------------------------------
(* KakaoTalkViewer and ChatRenderer: what they compute from a ChatLog *)

\* validateChatData(chatData) (main.js:173-178): a title that is not the empty
\* string and a messages array that is not empty, whatever its elements are
validateChatData(data) == data.title # <<>> /\ Len(data.messages) > 0

\* one attempt of /(\d{4})년\s*(\d{1,2})월\s*(\d{1,2})일/ at position p
DayMatchAt(s, p) ==
    IF ~(p + 4 <= Len(s) /\ (\A k \in p..(p + 3) : IsDigit(s[k])) /\ s[p + 4] = Nyeon)
    THEN NoMatch
    ELSE LET q1 == SkipSpaces(s, p + 5)
             month == OneOrTwoDigits(s, q1, Wol)
         IN IF month = <<>> THEN NoMatch
            ELSE LET q2 == SkipSpaces(s, q1 + Len(month) + 1)
                     day == OneOrTwoDigits(s, q2, Il)
                 IN IF day = <<>> THEN NoMatch
                    ELSE [ok |-> TRUE, year |-> SubSeq(s, p, p + 3),
                          month |-> month, day |-> day]

\* digits.padStart(2, '0')
PadStart(digits) == IF Len(digits) < 2 THEN <<"0">> \o digits ELSE digits

\* extractAvailableDates(chatData) (main.js:613-629): the new content of availableDates
extractAvailableDates(data) ==
    LET ev == data.messages
        D == {n \in 1..Len(ev) : /\ ev[n].type = "date"
                                 /\ ev[n].date # <<>>
                                 /\ \E p \in 1..Len(ev[n].date) : DayMatchAt(ev[n].date, p).ok}
        Day(n) == LET P == {p \in 1..Len(ev[n].date) : DayMatchAt(ev[n].date, p).ok}
                      m == DayMatchAt(ev[n].date, Min(P))
                  IN m.year \o <<"-">> \o PadStart(m.month) \o <<"-">> \o PadStart(m.day)
    IN {Day(n) : n \in D}

\* extractUserFromTitle(title) (renderer.js:122-132): match[1].trim() of
\* /^(.+?)\s*님과\s*카카오톡\s*대화$/, or the empty sequence for null; the dot matches
\* no line terminator
extractUserFromTitle(title) ==
    IF Len(title) < 2 \/ title[Len(title)] # TitleMarker THEN <<>>
    ELSE LET before == SubSeq(title, 1, Len(title) - 1)
             name == IF TrimEnd(before) = <<>> THEN <<before[1]>> ELSE TrimEnd(before)
         IN IF \E k \in 1..Len(name) : IsLineTerminator(name[k]) THEN <<>>
            ELSE Trim(name)

\* the users of determineCurrentUser (renderer.js:86-97): the senders in the order of
\* their first message, sorted by message count, larger first, the sort being stable
RECURSIVE SortUsers(_, _)
SortUsers(messages, S) ==
    IF S = {} THEN <<>>
    ELSE LET First(x) == Min({k \in 1..Len(messages) : messages[k].sender = x})
             top == CHOOSE x \in S : \A y \in S \ {x} :
                        \/ CountFrom(messages, x) > CountFrom(messages, y)
                        \/ /\ CountFrom(messages, x) = CountFrom(messages, y)
                           /\ First(x) < First(y)
         IN <<[name |-> top, messageCount |-> CountFrom(messages, top)]>>
              \o SortUsers(messages, S \ {top})

\* determineCurrentUser(chatData) (renderer.js:85-115): this.users, this.currentUser
\* and whether this.users[0].name has thrown a TypeError
determineCurrentUser(data, me) ==
    LET messages == OfType(data.messages, "message")
        sorted == SortUsers(messages, Senders(messages))
        titleUser == extractUserFromTitle(data.title)
        others == SelectSeq(sorted, LAMBDA user : user.name # titleUser)
    IN IF titleUser # <<>> /\ \E k \in 1..Len(sorted) : sorted[k].name = titleUser
       THEN [users |-> sorted, threw |-> FALSE,
             currentUser |-> IF others # <<>> THEN others[1].name ELSE titleUser]
       ELSE IF sorted = <<>>
       THEN [users |-> sorted, threw |-> TRUE, currentUser |-> me]
       ELSE [users |-> sorted, threw |-> FALSE, currentUser |-> sorted[1].name]

\* RenderAll with no child for a date marker
RenderAllMessagesOnly(data, me) ==
    LET shown == SelectSeq(data.messages, LAMBDA m : m.type = "message")
    IN [n \in 1..Len(shown) |->
           [type |-> "message", sender |-> shown[n].sender, content |-> shown[n].content,
            mine |-> shown[n].sender = me]]

\* RenderAll with every bubble drawn as a group of its own
RenderAllUngrouped(data, me) ==
    [n \in 1..Len(data.messages) |->
        IF data.messages[n].type = "date"
        THEN [type |-> "date", date |-> data.messages[n].date]
        ELSE [type |-> "message", sender |-> data.messages[n].sender,
              content |-> data.messages[n].content,
              mine |-> data.messages[n].sender = me,
              isFirstInGroup |-> TRUE, isLastInGroup |-> TRUE,
              nameShown |-> data.messages[n].sender # me,
              profileShown |-> data.messages[n].sender # me,
              timeShown |-> TRUE]]

\* the children that render appends to the container (renderer.js:37-43, 284-332):
\* a date separator for a DateMarker, a bubble on the right or on the left for a Message.
\* A bubble on the right shows its time when it is the last of its group
\* (renderer.js:340-357); a bubble on the left shows the profile and the name of the
\* sender when it is the first of its group and its time when it is the last
\* (renderer.js:365-393)
RenderAll(data, me) ==
    LET messages == data.messages
        isFirstInGroup(n) == \/ n = 1
                             \/ messages[n - 1].type # "message"
                             \/ messages[n - 1].sender # messages[n].sender
        isLastInGroup(n) == \/ n = Len(messages)
                            \/ messages[n + 1].type # "message"
                            \/ messages[n + 1].sender # messages[n].sender
        isMyMessage(n) == messages[n].sender = me
    IN [n \in 1..Len(messages) |->
           IF messages[n].type = "date"
           THEN [type |-> "date", date |-> messages[n].date]
           ELSE [type |-> "message", sender |-> messages[n].sender,
                 content |-> messages[n].content,
                 mine |-> isMyMessage(n),
                 isFirstInGroup |-> isFirstInGroup(n),
                 isLastInGroup |-> isLastInGroup(n),
                 nameShown |-> ~isMyMessage(n) /\ isFirstInGroup(n),
                 profileShown |-> ~isMyMessage(n) /\ isFirstInGroup(n),
                 timeShown |-> isLastInGroup(n)]]

\* string.toLowerCase()
Lower(str) == [k \in 1..Len(str) |-> ToLower(str[k])]

\* highlightSearchTerm(content, query) (main.js:330-333) for a query of plain words:
\* every occurrence of the query, whatever its case, wrapped in a mark element
RECURSIVE highlightSearchTerm(_, _)
highlightSearchTerm(str, query) ==
    IF str = <<>> THEN <<>>
    ELSE IF StartsWith(Lower(str), Lower(query))
    THEN <<"<mark>">> \o SubSeq(str, 1, Len(query)) \o <<"</mark>">>
           \o highlightSearchTerm(SubSeq(str, Len(query) + 1, Len(str)), query)
    ELSE <<Head(str)>> \o highlightSearchTerm(Tail(str), query)

\* the currentDate of the scan of searchMessages at element n (main.js:303-309)
ScanDate(events, n) ==
    LET D == {k \in 1..n : events[k].type = "date"}
    IN IF D = {} THEN <<>> ELSE events[CHOOSE k \in D : \A j \in D : j <= k].date

\* searchMessages(query) (main.js:295-322): a copy of every Message whose content holds
\* the query, with index (from 0), date and highlightedContent, the largest index first
searchMessages(data, query) ==
    LET ev == data.messages
        Hit(n) == /\ ev[n].type = "message"
                  /\ ev[n].content # <<>>
                  /\ Includes(Lower(ev[n].content), Lower(query))
        hits == SelectSeq([n \in 1..Len(ev) |-> Len(ev) + 1 - n], Hit)
    IN [k \in 1..Len(hits) |->
          [type |-> ev[hits[k]].type,
           sender |-> ev[hits[k]].sender,
           time |-> ev[hits[k]].time,
           content |-> ev[hits[k]].content,
           messageType |-> ev[hits[k]].messageType,
           raw |-> ev[hits[k]].raw,
           index |-> hits[k] - 1,
           date |-> ScanDate(ev, hits[k]),
           highlightedContent |-> highlightSearchTerm(ev[hits[k]].content, query)]]

-----------------------------------------------------------------------------
(* KakaoTalkViewer and ChatRenderer: the handlers *)

\* the processFile calls of a behaviour
MaxUploads == 2

\* the uploaded files: a chat with a save date and a two-line message; a chat of two
\* senders; a title and a date separator with no message; messages with no title; an
\* empty file
FChat == <<LTitleMinsu, LSaveDate, LDate, LHello, LWorld>>
FTwoSenders == <<LTitleNoSpace, LDate, LHello, LSajin, LHello>>
FDateOnly == <<LTitleYuna, LDate>>
FNoTitle == <<LWorld, LSajin, LBlank>>
FEmpty == <<LBlank>>
FileSet == {FChat, FTwoSenders, FDateOnly, FNoTitle, FEmpty}

\* the search words typed: "HELLO", "사진", "x"
Queries == {<<"HELLO">>, <<Sajin>>, <<"x">>}

\* no JavaScript is running: an event handler or a callback may start
Idle == pc \in {"idle", "done"} /\ running = 0

\* processFile(file) up to await this.readFile(file) (main.js:94-105), for a text file
\* within the size limit
ProcessFile(text) ==
    /\ Idle
    /\ Len(files) < MaxUploads
    /\ files' = Append(files, [text |-> text, overlapping |-> pending])
    /\ pending' = pending \cup {Len(files) + 1}
    /\ loading' = TRUE
    /\ error' = "hidden"
    /\ performed' = Append(performed, <<>>)
    /\ obtained' = Append(obtained, Null)
    /\ UNCHANGED <<parserVars, classifierVars, statsVars, running, currentChatData,
                   availableDates, users, currentUser, dom, results, chatInfo,
                   containerShown, timers, buttons, uiVars>>

\* reader.onload: the promise of readFile is resolved and processFile goes on with
\* this.parser.parse(content) (main.js:105-108, 156)
ReadDone(k) ==
    /\ Idle
    /\ k \in pending
    /\ StartParse(files[k].text)
    /\ pending' = pending \ {k}
    /\ running' = k
    /\ UNCHANGED <<classifierVars, statsVars, files, currentChatData, loading, error,
                   performed, obtained, availableDates, users, currentUser, dom, results,
                   chatInfo, containerShown, timers, buttons, uiVars>>

\* reader.onerror: the promise is rejected and processFile goes to its catch and
\* finally blocks (main.js:122-127, 157)
ReadFailed(k) ==
    /\ Idle
    /\ k \in pending
    /\ pending' = pending \ {k}
    /\ error' = "processing"
    /\ performed' = [performed EXCEPT ![k] = <<"showError(processing)">>]
    /\ loading' = FALSE
    /\ UNCHANGED <<parserVars, classifierVars, statsVars, files, running, currentChatData,
                   obtained, availableDates, users, currentUser, dom, results, chatInfo,
                   containerShown, timers, buttons, uiVars>>

\* processFile from the assignment of the parse result to the end (main.js:108-127);
\* render(chatData) is renderer.js:26-46 and the message count shown is below 1000,
\* which toLocaleString leaves as it is
ProcessFileRest ==
    /\ running # 0
    /\ pc = "done"
    /\ currentChatData' = "chatData"
    /\ obtained' = [obtained EXCEPT ![running] = [log |-> chatData, call |-> Len(texts)]]
    /\ LET d == determineCurrentUser(chatData, currentUser)
       IN IF ~validateChatData(chatData)
          THEN /\ error' = "invalid"
               /\ performed' = [performed EXCEPT ![running] = <<"showError(invalid)">>]
               /\ UNCHANGED <<availableDates, users, currentUser, dom, chatInfo,
                              containerShown, buttons>>
          ELSE /\ chatInfo' = [title |-> chatData.title, saveDate |-> chatData.saveDate,
                               messageCount |-> getStats(chatData).totalMessages]
               /\ availableDates' = extractAvailableDates(chatData)
               /\ users' = d.users
               /\ dom' = IF d.threw THEN <<>> ELSE RenderAll(chatData, d.currentUser)
               /\ currentUser' = d.currentUser
               /\ buttons' = IF d.threw THEN buttons
                             ELSE [names |-> [n \in 1..Len(d.users) |-> d.users[n].name],
                                   disabled |-> FALSE]
               /\ containerShown' = (containerShown \/ ~d.threw)
               /\ error' = IF d.threw THEN "processing" ELSE error
               /\ performed' = [performed EXCEPT ![running] =
                     IF d.threw
                     THEN <<"updateChatInfo", "extractAvailableDates", "render",
                            "showError(processing)">>
                     ELSE <<"updateChatInfo", "extractAvailableDates", "render",
                            "showChatContainer">>]
    /\ loading' = FALSE
    /\ running' = 0
    /\ UNCHANGED <<parserVars, classifierVars, statsVars, files, pending, results, timers>>

\* the continuation of processFile after the await, in the viewer of main.js
AfterParse == ProcessFileRest /\ UNCHANGED uiVars

\* the click handler of an enabled user button (renderer.js:189-207)
ClickUser(name) ==
    /\ Idle
    /\ ~buttons.disabled
    /\ \E n \in 1..Len(buttons.names) : buttons.names[n] = name
    /\ currentUser # name
    /\ currentUser' = name
    /\ buttons' = [buttons EXCEPT !.disabled = TRUE]
    /\ timers' = timers + 1
    /\ UNCHANGED <<parserVars, classifierVars, statsVars, files, pending, running,
                   currentChatData, loading, error, performed, obtained, availableDates,
                   users, dom, results, chatInfo, containerShown, uiVars>>

\* Rerender taken for an initial render: determineCurrentUser is called again
RerenderInitial ==
    /\ Idle
    /\ timers > 0
    /\ timers' = timers - 1
    /\ LET d == determineCurrentUser(chatData, currentUser)
       IN /\ users' = d.users
          /\ currentUser' = d.currentUser
          /\ dom' = RenderAll(chatData, d.currentUser)
          /\ buttons' = [names |-> [n \in 1..Len(d.users) |-> d.users[n].name],
                         disabled |-> FALSE]
    /\ UNCHANGED <<parserVars, classifierVars, statsVars, files, pending, running,
                   currentChatData, loading, error, performed, obtained, availableDates,
                   results, chatInfo, containerShown, uiVars>>

\* the timeout of a click: this.render(this.chatData, false) (renderer.js:201-204,
\* 26-46), this.chatData being the parser's object handed to the last render
Rerender ==
    /\ Idle
    /\ timers > 0
    /\ timers' = timers - 1
    /\ dom' = RenderAll(chatData, currentUser)
    /\ buttons' = [names |-> [n \in 1..Len(users) |-> users[n].name], disabled |-> FALSE]
    /\ UNCHANGED <<parserVars, classifierVars, statsVars, files, pending, running,
                   currentChatData, loading, error, performed, obtained, availableDates,
                   users, currentUser, results, chatInfo, containerShown, uiVars>>

\* SearchMessages with the extra fields assigned to the events themselves
SearchMessagesInPlace(query) ==
    /\ Idle
    /\ currentChatData # "null"
    /\ results' = searchMessages(chatData, query)
    /\ chatData' = [chatData EXCEPT !.messages =
          [n \in 1..Len(chatData.messages) |->
              IF \E k \in 1..Len(results') : results'[k].index = n - 1
              THEN [chatData.messages[n] EXCEPT !.date = ScanDate(chatData.messages, n)]
              ELSE chatData.messages[n]]]
    /\ UNCHANGED <<lines, i, currentDate, currentMessage, pc, texts, returned, origin,
                   curOrigin, classifierVars, statsVars, files, pending, running,
                   currentChatData, loading, error, performed, obtained, availableDates,
                   users, currentUser, dom, chatInfo, containerShown, timers, buttons, uiVars>>

\* a call of searchMessages(query) (main.js:295-322)
SearchMessages(query) ==
    /\ Idle
    /\ results' = IF currentChatData = "null" THEN <<>> ELSE searchMessages(chatData, query)
    /\ UNCHANGED <<parserVars, classifierVars, statsVars, files, pending, running,
                   currentChatData, loading, error, performed, obtained, availableDates,
                   users, currentUser, dom, chatInfo, containerShown, timers, buttons, uiVars>>

StartUpload == \E text \in FileSet : ProcessFile(text)
FinishRead == \E k \in pending : ReadDone(k)
FailRead == \E k \in pending : ReadFailed(k)
Click == \E n \in 1..Len(buttons.names) : ClickUser(buttons.names[n])
Search == \E query \in Queries : SearchMessages(query)

NextViewer ==
    \/ StartUpload
    \/ FinishRead
    \/ FailRead
    \/ BlankLine
    \/ TitleLine
    \/ SaveDateLine
    \/ DateLine
    \/ HeaderLine
    \/ ContinuationLine
    \/ DiscardLine
    \/ Return
    \/ AfterParse
    \/ Click
    \/ Rerender
    \/ Search

SpecViewer == Init /\ [][NextViewer]_vars

-----------------------------------------------------------------------------
(* What the claims speak of *)

\* the events of a ChatLog
Events(log) == log.messages
IsMessage(e) == e.type = "message"
IsDateMarker(e) == e.type = "date"

\* <<call, line>> pairs, ordered by call and then by line
Before(o1, o2) == o1[1] < o2[1] \/ (o1[1] = o2[1] /\ o1[2] < o2[2])

\* the trimmed line an origin names
LineAt(o) == Trim(texts[o[1]][o[2]])

\* the displayText of the nearest DateMarker before position n of events, or the empty string
NearestMarker(events, n) ==
    LET D == {k \in 1..(n - 1) : IsDateMarker(events[k])}
    IN IF D = {} THEN <<>> ELSE events[CHOOSE k \in D : \A j \in D : j <= k].date

\* the lines that end an open message
IsBoundary(line) == LineRule(line) \in {"title", "saveDate", "date", "header"}

\* the first boundary line of text after line h, or Len(text) + 1
BoundaryAfter(text, h) ==
    LET B == {j \in (h + 1)..Len(text) : IsBoundary(Trim(text[j]))}
    IN IF B = {} THEN Len(text) + 1 ELSE Min(B)

\* a newline and the trimmed line, for each of the lines j..e of text
RECURSIVE JoinFrom(_, _, _)
JoinFrom(text, j, e) ==
    IF j > e THEN <<>> ELSE <<"\n">> \o Trim(text[j]) \o JoinFrom(text, j + 1, e)

\* the content of the message whose header is line h of text
ExpectedContent(text, h) ==
    Trim(messagePattern(Trim(text[h])).content)
        \o JoinFrom(text, h + 1, BoundaryAfter(text, h) - 1)

\* the first of the lines 1..n of text that rule r handles, or 0
FirstHandled(text, n, r) ==
    LET F == {j \in 1..n : LineRule(Trim(text[j])) = r}
    IN IF F = {} THEN 0 ELSE Min(F)

-----------------------------------------------------------------------------
(* C1 *)

\* C1: parse is deterministic: any two parse calls on the same text, two successive
\* calls on the one parser instance included, return structurally identical ChatLogs.
C1_ParseDeterministic ==
    \A j, k \in 1..Len(returned) :
        returned[j].text = returned[k].text => returned[j].log = returned[k].log

(* C2 *)

\* C2: every parse call produces a new, independent ChatLog: a ChatLog returned earlier
\* (the object is this.chatData) still has the value it had when it was returned, and
\* the ChatLog a call returns holds only events that come from the lines of that call.
C2_IndependentChatLog ==
    \A k \in 1..Len(returned) :
        /\ chatData = returned[k].log
        /\ \A n \in 1..Len(Events(returned[k].log)) : origin[n][1] = k

(* C4 *)

\* C4: in every returned ChatLog, the date of every Message is the displayText of the
\* nearest DateMarker before it in events, or the empty string when there is none.
C4_MessageDateIsNearestMarker ==
    \A k \in 1..Len(returned) :
        LET events == Events(returned[k].log)
        IN \A n \in 1..Len(events) :
              IsMessage(events[n]) => events[n].date = NearestMarker(events, n)

(* C7 *)

\* C7: the kind of every Message in events is the classifier applied to its final
\* content, also when the content grew by a blank line.
C7_KindIsClassifierOfContent ==
    \A n \in 1..Len(Events(chatData)) :
        LET e == Events(chatData)[n]
        IN IsMessage(e) => e.messageType = detectMessageType(e.content)

(* C8 *)

\* C8: over the lines of one input, title is set only by the first line handled as a
\* title header and saveDate only by the first line handled as a save-date header.
C8_HeadersSetOnce ==
    pc = "loop" =>
        LET t == FirstHandled(lines, i - 1, "title")
            d == FirstHandled(lines, i - 1, "saveDate")
        IN /\ t > 0 => chatData.title = extractTitle(Trim(lines[t]))
           /\ d > 0 => chatData.saveDate = extractSaveDate(Trim(lines[d]))

-----------------------------------------------------------------------------
(* C3 *)

\* a line no pattern matches: blank, or neither header, separator nor message header
IsUnmatched(line) == LineRule(Trim(line)) \in {"blank", "other"}

\* the state part of C3
C3_State ==
    /\ pc = "loop" => /\ i \in 1..(Len(lines) + 1)
                      /\ currentMessage = Null \/ IsMessage(currentMessage)
                      /\ Len(returned) = Len(texts) - 1
    /\ pc # "loop" => Len(returned) = Len(texts)
    /\ (/\ Len(returned) >= 1
        /\ \A j \in 1..Len(returned[1].text) : IsUnmatched(returned[1].text[j]))
       => returned[1].log = NewChatData

\* C3: parse is total: a running call is always at a line of its input or just past
\* the last one, its open message is null or a message (no rule finds a value it cannot
\* handle), every step of it handles one line and moves to the next or returns, and it
\* returns only past the last line; every call that is not running has returned a
\* ChatLog; and for an input in which no line matches any pattern (the empty input
\* included) a fresh parser returns the empty title, the empty saveDate and no events.
C3_ParseTotal ==
    /\ []C3_State
    /\ [][pc = "loop" => \/ pc' = "loop" /\ i' = i + 1 /\ lines' = lines
                         \/ pc' = "done" /\ i = Len(lines) + 1
                               /\ returned'[Len(returned')].text = lines]_vars

\* a fresh parser has returned from an input of an unmatched line and a blank one
C3_Witness ==
    /\ Len(returned) = 1
    /\ returned[1].text = <<LWorld, LBlank>>
    /\ returned[1].log = NewChatData

(* C5 *)

\* C5: events keeps the order of the source lines: every event comes from a line of
\* its own kind (a DateMarker from a date separator, a Message from a message header),
\* and an event from an earlier line (of an earlier call, or of the same call and a
\* smaller line number) stands earlier in events; the open message comes from a line
\* after those of all events and before the line being read, so it is pushed before
\* the DateMarker of a separator read while it is open.
C5_EventsInLineOrder ==
    /\ Len(origin) = Len(Events(chatData))
    /\ \A n \in 1..Len(origin) :
          LET e == Events(chatData)[n]
          IN /\ origin[n][1] \in 1..Len(texts)
             /\ origin[n][2] \in 1..Len(texts[origin[n][1]])
             /\ e.raw[1] = LineAt(origin[n])[1]
             /\ IsDateMarker(e) => /\ LineRule(LineAt(origin[n])) = "date"
                                   /\ e.raw = LineAt(origin[n])
             /\ IsMessage(e) => LineRule(LineAt(origin[n])) = "header"
    /\ \A m, n \in 1..Len(origin) : m < n => Before(origin[m], origin[n])
    /\ currentMessage # Null =>
          /\ curOrigin[1] = CurCall /\ curOrigin[2] < i
          /\ LineRule(LineAt(curOrigin)) = "header"
          /\ \A n \in 1..Len(origin) : Before(origin[n], curOrigin)

\* a message that was open when a date separator was read stands before its DateMarker,
\* and the message whose header followed the separator stands after it
C5_Witness ==
    /\ Len(returned) = 1
    /\ returned[1].text = <<LHello, LDate, LSajin>>
    /\ Len(Events(chatData)) = 3
    /\ IsMessage(Events(chatData)[1])
    /\ IsDateMarker(Events(chatData)[2])
    /\ IsMessage(Events(chatData)[3])

(* C6 *)

\* C6: the content of every Message in events is the trimmed remainder of its header
\* line followed by a newline and the (trimmed) line for every line after the header up
\* to the next title, save-date, date-separator or message-header line or the end of the
\* input, a blank line giving an empty segment; a header "hello" followed by "world"
\* gives "hello\nworld", and followed by a blank line and "world" gives "hello\n\nworld".
C6_ContentIsJoinedLines ==
    /\ \A n \in 1..Len(Events(chatData)) :
          LET e == Events(chatData)[n]
          IN IsMessage(e) =>
                e.content = ExpectedContent(texts[origin[n][1]], origin[n][2])
    /\ (Len(returned) >= 1 /\ returned[1].text = <<LHello, LWorld>>) =>
          /\ Len(Events(returned[1].log)) = 1
          /\ Events(returned[1].log)[1].content = <<"hello", "\n", "world">>
    /\ (Len(returned) >= 1 /\ returned[1].text = <<LHello, LBlank, LWorld>>) =>
          /\ Len(Events(returned[1].log)) = 1
          /\ Events(returned[1].log)[1].content = <<"hello", "\n", "\n", "world">>

\* the three-line example has been parsed into one Message
C6_Witness ==
    /\ Len(returned) = 1
    /\ returned[1].text = <<LHello, LBlank, LWorld>>
    /\ Len(Events(chatData)) = 1
    /\ Events(chatData)[1].content = <<"hello", "\n", "\n", "world">>

-----------------------------------------------------------------------------
(* C9 *)

\* the rules of the classifier in their order, the last one matching everything
KindOrder == <<"empty", "media", "emoticon", "link", "file", "voice", "system", "text">>
Rule(r, c) ==
    CASE r = 1 -> IsEmptyContent(c)
      [] r = 2 -> IsMedia(c)
      [] r = 3 -> IsEmoticon(c)
      [] r = 4 -> IsLink(c)
      [] r = 5 -> IsFile(c)
      [] r = 6 -> IsVoice(c)
      [] r = 7 -> IsSystem(c)
      [] r = 8 -> TRUE

\* the kind of the first rule that matches c
FirstMatch(c) == KindOrder[Min({r \in 1..8 : Rule(r, c)})]

\* no rule before rule r matches c
NoneBefore(r, c) == \A q \in 1..(r - 1) : ~Rule(q, c)

\* C9 as claimed: the kind is that of the first rule that matches, so every content
\* with a link and a document extension or a file, voice or system marker is link,
\* every content with a file marker and the voice token is file, and every content
\* with the voice token and a system phrase is voice.
C9_FirstMatchWinsUnconditional ==
    kind # "none" =>
        /\ kind = FirstMatch(content)
        /\ (IsLink(content) /\ (IsFile(content) \/ IsVoice(content) \/ IsSystem(content)))
              => kind = "link"
        /\ (Includes(content, <<Pail, ":">>) /\ IsVoice(content)) => kind = "file"
        /\ (IsVoice(content) /\ IsSystem(content)) => kind = "voice"

\* C9 amended: the kind is that of the first rule that matches; so a content with a
\* link and a document extension or a file, voice or system marker is link when no
\* rule before the link rule matches it, a content with a file marker and the voice
\* token is file when no rule before the file rule matches it, and a content with the
\* voice token and a system phrase is voice when no rule before the voice rule does.
C9_FirstMatchWins ==
    kind # "none" =>
        /\ kind = FirstMatch(content)
        /\ (/\ NoneBefore(4, content) /\ IsLink(content)
            /\ (IsFile(content) \/ IsVoice(content) \/ IsSystem(content)))
              => kind = "link"
        /\ (/\ NoneBefore(5, content)
            /\ Includes(content, <<Pail, ":">>) /\ IsVoice(content)) => kind = "file"
        /\ (NoneBefore(6, content) /\ IsVoice(content) /\ IsSystem(content))
              => kind = "voice"

\* a URL that ends in a document extension has been classified as link
C9_Witness ==
    /\ content = <<"https://", ".", "pdf">>
    /\ IsLink(content) /\ EndsWithExtension(content)
    /\ kind = "link"

(* C10 *)

Kinds == {"text", "media", "emoticon", "link", "file", "voice", "system", "empty"}

\* C10: the classifier gives every content exactly one of the eight kinds; it gives
\* empty exactly for the empty string and text exactly for a non-empty content that
\* matches none of the media, emoticon, link, file, voice and system rules; "사진" is
\* media, "https://example.com" link, "철수 님이 들어왔습니다." system, "그냥 텍스트" text.
C10_ClassifierTotal ==
    /\ detectMessageType(content) \in Kinds
    /\ kind # "none" =>
        /\ kind \in Kinds
        /\ kind = "empty" <=> content = <<>>
        /\ kind = "text" <=>
              /\ content # <<>>
              /\ ~IsMedia(content) /\ ~IsEmoticon(content) /\ ~IsLink(content)
              /\ ~IsFile(content) /\ ~IsVoice(content) /\ ~IsSystem(content)
        /\ content = <<Sajin>> => kind = "media"
        /\ content = <<"https://", "example", ".", "com">> => kind = "link"
        /\ content = <<"cheolsu", " ", Deureowatseumnida, ".">> => kind = "system"
        /\ content = <<"geunyang", " ", "tekseuteu">> => kind = "text"

\* the join notice of the examples has been classified as system
C10_Witness ==
    /\ content = <<"cheolsu", " ", Deureowatseumnida, ".">>
    /\ kind = "system"

-----------------------------------------------------------------------------
(* Statistics *)

\* round(100 * count / total) with halves rounded up, in exact arithmetic
RoundHalfUp(count, total) == (200 * count + total) \div (2 * total)

RECURSIVE SumOfCounts(_, _)
SumOfCounts(senderStats, S) ==
    IF S = {} THEN 0
    ELSE LET x == CHOOSE y \in S : TRUE
         IN senderStats[x].count + SumOfCounts(senderStats, S \ {x})

\* C11: every value getStats has returned has totalMessages equal to the number of
\* Message events of the ChatLog, totalDays equal to its number of DateMarker events,
\* participants equal to its number of distinct senders, and for every sender a count
\* equal to the number of that sender's Message events and a percentage equal to
\* round(100 * count / totalMessages) with halves rounded up; the counts sum to
\* totalMessages, and with no message senderStats is empty.
C11_StatsOfEvents ==
    \A k \in 1..Len(stats) :
        LET st == stats[k]
            ev == Events(chatData)
            M == {n \in 1..Len(ev) : IsMessage(ev[n])}
            D == {n \in 1..Len(ev) : IsDateMarker(ev[n])}
            S == {ev[n].sender : n \in M}
        IN /\ st.totalMessages = Cardinality(M)
           /\ st.totalDays = Cardinality(D)
           /\ st.participants = Cardinality(S)
           /\ DOMAIN st.senderStats = S
           /\ \A x \in S :
                LET count == Cardinality({n \in M : ev[n].sender = x})
                IN /\ st.senderStats[x].count = count
                   /\ st.senderStats[x].percentage = RoundHalfUp(count, Cardinality(M))
           /\ SumOfCounts(st.senderStats, S) = st.totalMessages
           /\ (M = {} => S = {})

\* C12: getStats is a read-only projection: a call leaves title, saveDate and events as
\* they were, and the calls made with no parse between them return equal statistics.
C12_GetStatsReadOnly ==
    /\ [](\A j, k \in 1..Len(stats) : stats[j] = stats[k])
    /\ [][stats' # stats => chatData' = chatData]_vars

\* two getStats calls have been made on a ChatLog of date separators and messages
C12_Witness ==
    /\ Len(stats) = 2
    /\ stats[2].totalMessages > 0
    /\ stats[2].totalDays > 0
    /\ stats[2].participants = 2

-----------------------------------------------------------------------------
(* Header and separator lines *)

\* C14: the stored title never contains the phrase "님과 카카오톡 대화": for every line
\* handled as a title header, the title is the line with the marker phrase removed.
C14_TitleWithoutMarker == ~Includes(chatData.title, <<TitleMarker>>)

\* C15: the stored saveDate never begins with the marker "저장한 날짜 :": for every line
\* handled as a save-date header, the saveDate is the remainder of the line after it.
C15_SaveDateWithoutMarker == ~StartsWith(chatData.saveDate, <<SaveDateMarker>>)

\* "<year>년 <month>월 <day>일 <weekday>": four digits, one or two digits, one or two
\* digits, single spaces between the groups, then a weekday token with no space and
\* no dash run in it
IsNormalizedDate(d) ==
    \E a, b \in 1..2 :
        /\ Len(d) >= 11 + a + b
        /\ \A k \in 1..4 : IsDigit(d[k])
        /\ d[5] = Nyeon /\ d[6] = " "
        /\ \A k \in 7..(6 + a) : IsDigit(d[k])
        /\ d[7 + a] = Wol /\ d[8 + a] = " "
        /\ \A k \in (9 + a)..(8 + a + b) : IsDigit(d[k])
        /\ d[9 + a + b] = Il /\ d[10 + a + b] = " "
        /\ \A k \in (11 + a + b)..Len(d) : ~IsSpace(d[k]) /\ d[k] # DashRun

\* C16: every DateMarker that parse has appended has a displayText in the normalized
\* form "<year>년 <month>월 <day>일 <weekday>", whatever line was accepted as its
\* date separator.
C16_DateMarkersNormalized ==
    \A n \in 1..Len(Events(chatData)) :
        IsDateMarker(Events(chatData)[n]) => IsNormalizedDate(Events(chatData)[n].date)

-----------------------------------------------------------------------------
(* The order of the rules *)

RuleOrder == <<"blank", "title", "saveDate", "date", "header", "continuation", "discard">>

\* whether a rule applies to a trimmed line, a message being open or not
Applies(rule, line, open) ==
    CASE rule = "blank" -> IsBlank(line)
      [] rule = "title" -> IsTitleLine(line)
      [] rule = "saveDate" -> IsSaveDateLine(line)
      [] rule = "date" -> IsDateLine(line)
      [] rule = "header" -> messagePattern(line).ok
      [] rule = "continuation" -> open
      [] rule = "discard" -> TRUE

\* the first rule of the order that applies
FirstRule(line, open) ==
    RuleOrder[Min({k \in 1..Len(RuleOrder) : Applies(RuleOrder[k], line, open)})]

\* what a step of the loop has done if it is the work of one rule alone
HandledBy(rule, line) ==
    CASE rule = "blank" ->
            /\ chatData' = chatData
            /\ currentMessage' = IF currentMessage = Null THEN Null
                                 ELSE [currentMessage EXCEPT !.content = @ \o <<"\n">>,
                                                             !.raw = @ \o <<"\n">>]
      [] rule = "title" ->
            /\ chatData' = [title |-> extractTitle(line), saveDate |-> chatData.saveDate,
                            messages |-> Closed]
            /\ currentMessage' = Null
      [] rule = "saveDate" ->
            /\ chatData' = [title |-> chatData.title, saveDate |-> extractSaveDate(line),
                            messages |-> Closed]
            /\ currentMessage' = Null
      [] rule = "date" ->
            /\ chatData'.title = chatData.title /\ chatData'.saveDate = chatData.saveDate
            /\ Len(chatData'.messages) = Len(Closed) + 1
            /\ SubSeq(chatData'.messages, 1, Len(Closed)) = Closed
            /\ IsDateMarker(chatData'.messages[Len(Closed) + 1])
            /\ currentMessage' = Null
      [] rule = "header" ->
            /\ chatData' = [chatData EXCEPT !.messages = Closed]
            /\ IsMessage(currentMessage')
            /\ currentMessage'.raw = line
      [] rule = "continuation" ->
            /\ chatData' = chatData
            /\ IsMessage(currentMessage')
            /\ currentMessage'.raw = currentMessage.raw \o <<"\n">> \o line
      [] rule = "discard" ->
            /\ chatData' = chatData
            /\ currentMessage' = currentMessage

\* the lines that the title, save-date and date rules take
IsHeaderOrSeparator(line) == IsTitleLine(line) \/ IsSaveDateLine(line) \/ IsDateLine(line)

\* C19: every line is handled by one rule, the first that applies in the order blank
\* line, title header, save-date header, date separator, message header, continuation,
\* discard; no Message event, pushed or open, comes from a line that contains the
\* room-title marker, starts with the save-date marker or is a date separator, even
\* if the line matches the message pattern.
C19_FirstRuleHandles ==
    /\ [][InLoop => /\ i' = i + 1
                    /\ HandledBy(FirstRule(CurLine, currentMessage # Null), CurLine)]_vars
    /\ [](/\ \A n \in 1..Len(Events(chatData)) :
                IsMessage(Events(chatData)[n]) => ~IsHeaderOrSeparator(LineAt(origin[n]))
          /\ currentMessage # Null => ~IsHeaderOrSeparator(LineAt(curOrigin)))

\* "[A] [10:00] 민수 님과 카카오톡 대화", which matches the message pattern, has been
\* handled: it has set the title and no Message event has come of it
C19_Witness ==
    /\ pc = "done"
    /\ texts = <<<<LTitleInMessage>>>>
    /\ messagePattern(Trim(LTitleInMessage)).ok
    /\ chatData.title = <<"[", "A", "]", " ", "[", "10:00", "]", " ", "minsu">>
    /\ Events(chatData) = <<>>

\* C20: a title header, a save-date header and a date separator each close the open
\* message: after the line currentMessage is null and the message that was open is the
\* next event, with the content it had; while no message is open, a blank line and a
\* line that no pattern matches change neither the events nor currentMessage; and an
\* event, once pushed, is never changed.
C20_HeadersCloseOpenMessage ==
    /\ [][InLoop /\ IsHeaderOrSeparator(CurLine) =>
            /\ currentMessage' = Null
            /\ currentMessage # Null =>
                  /\ Len(Events(chatData')) > Len(Events(chatData))
                  /\ Events(chatData')[Len(Events(chatData)) + 1] = currentMessage]_vars
    /\ [][InLoop /\ currentMessage = Null /\ ~IsHeaderOrSeparator(CurLine)
                 /\ ~messagePattern(CurLine).ok =>
            /\ Events(chatData') = Events(chatData)
            /\ currentMessage' = Null]_vars
    /\ [][/\ Len(Events(chatData')) >= Len(Events(chatData))
          /\ \A n \in 1..Len(Events(chatData)) :
                Events(chatData')[n] = Events(chatData)[n]]_vars

\* "[A] [10:00] hello", "민수 님과 카카오톡 대화", "world": the title header has closed
\* the message and the line after it has been dropped
C20_Witness ==
    /\ pc = "done"
    /\ texts = <<<<LHello, LTitleMinsu, LWorld>>>>
    /\ chatData.title = <<"minsu">>
    /\ Len(Events(chatData)) = 1
    /\ Events(chatData)[1].content = <<"hello">>

-----------------------------------------------------------------------------
(* The viewer *)

\* what the text of a file yields when it is parsed on its own: the title of its last
\* title header, the save date of its last save-date header, whether it has a message
\* header (every one of them becomes a Message event), and its number of events
LastOf(text, rule) ==
    LET J == {j \in 1..Len(text) : LineRule(Trim(text[j])) = rule}
    IN IF J = {} THEN 0 ELSE CHOOSE j \in J : \A k \in J : k <= j
TitleOf(text) ==
    IF LastOf(text, "title") = 0 THEN <<>>
    ELSE extractTitle(Trim(text[LastOf(text, "title")]))
SaveDateOf(text) ==
    IF LastOf(text, "saveDate") = 0 THEN <<>>
    ELSE extractSaveDate(Trim(text[LastOf(text, "saveDate")]))
YieldsMessage(text) == LastOf(text, "header") # 0
EventCountOf(text) ==
    Cardinality({j \in 1..Len(text) : LineRule(Trim(text[j])) \in {"header", "date"}})

\* the processFile call k has parsed its file and has run to its end
Finished(k) == obtained[k] # Null /\ running # k

\* C13: every uploaded file whose text yields an empty title or no Message event is
\* rejected, whatever was uploaded before it: its processFile call shows the
\* not-a-valid-export error and performs none of updateChatInfo,
\* extractAvailableDates, render and showChatContainer.
C13_InvalidFilesRejected ==
    \A k \in 1..Len(files) :
        (/\ Finished(k)
         /\ (TitleOf(files[k].text) = <<>> \/ ~YieldsMessage(files[k].text)))
        => performed[k] = <<"showError(invalid)">>

\* the fields that a search result shares with the event it is a copy of
CopiedFields == {"type", "sender", "time", "content", "messageType", "raw"}

\* a highlighted content with the mark tags taken out
WithoutMarks(str) == SelectSeq(str, LAMBDA t : t \notin {"<mark>", "</mark>"})

\* C17: the consumers never change the events of a returned ChatLog: a step that
\* renders (first rendering or after a user switch), determines the current user,
\* searches or extracts the available dates leaves title, saveDate and events as they
\* were, and every search result is a copy of the event at its index that carries
\* the extra fields index, date and highlightedContent.
C17_ConsumersLeaveEvents ==
    /\ [][(\/ dom' # dom \/ users' # users \/ currentUser' # currentUser
           \/ results' # results \/ availableDates' # availableDates
           \/ timers' # timers)
          => chatData' = chatData]_vars
    /\ [](\A k \in 1..Len(results) :
            LET event == Events(chatData)[results[k].index + 1]
            IN /\ IsMessage(event)
               /\ \A f \in CopiedFields : results[k][f] = event[f]
               /\ DOMAIN results[k] = DOMAIN event \cup {"index", "highlightedContent"}
               /\ results[k].date = NearestMarker(Events(chatData), results[k].index + 1)
               /\ WithoutMarks(results[k].highlightedContent) = event.content)

\* a chat of two senders has been rendered, the user switched and the chat rendered
\* again, and a search has returned a copy of a Message
C17_Witness ==
    /\ Idle
    /\ Len(results) > 0
    /\ timers = 0
    /\ Len(users) = 2
    /\ currentUser = users[2].name
    /\ \E n \in 1..Len(dom) : dom[n].type = "message" /\ dom[n].mine
                              /\ dom[n].sender = users[2].name
    /\ availableDates # {}

\* the processFile calls k and j overlap: one began while the other awaited its read
Overlap(j, k) == j \in files[k].overlapping \/ k \in files[j].overlapping

\* C18: when two processFile calls overlap, whichever order their reads complete in,
\* the ChatLog each obtains from parse contains only the title, the saveDate and the
\* events of its own file.
C18_OverlappingUploadsIndependent ==
    \A j, k \in 1..Len(files) :
        (Overlap(j, k) /\ obtained[j] # Null /\ obtained[k] # Null) =>
            /\ obtained[k].log.title = TitleOf(files[k].text)
            /\ obtained[k].log.saveDate = SaveDateOf(files[k].text)
            /\ Len(Events(obtained[k].log)) = EventCountOf(files[k].text)
            /\ \A n \in 1..Len(Events(obtained[k].log)) : origin[n][1] = obtained[k].call

-----------------------------------------------------------------------------
(* Opening, growing and emitting a message *)

\* the lines of a text that the message-header rule handles
HeaderLines(text) == {j \in 1..Len(text) : LineRule(Trim(text[j])) = "header"}

\* the Message events that came of call c
MessagesOfCall(c) ==
    {n \in 1..Len(Events(chatData)) : IsMessage(Events(chatData)[n]) /\ origin[n][1] = c}

\* C21: every message that is opened is emitted exactly once: when a parse call has
\* returned, the Message events that came of it are as many as the lines of its text
\* handled as message headers, one for each header line and no two for one line; the
\* first call of a behaviour is the parse on a fresh parser, whose result holds
\* exactly these events.
C21_OpenedEmittedOnce ==
    \A c \in 1..Len(returned) :
        /\ Cardinality(MessagesOfCall(c)) = Cardinality(HeaderLines(texts[c]))
        /\ {origin[n][2] : n \in MessagesOfCall(c)} = HeaderLines(texts[c])
        /\ c = 1 =>
              Cardinality({n \in 1..Len(Events(returned[1].log)) :
                              IsMessage(Events(returned[1].log)[n])})
                = Cardinality(HeaderLines(texts[1]))

\* "[A] [10:00] hello", "[B] [10:01] 사진" on a fresh parser: the first message was
\* pushed at the second header, the second at the end of input
C21_Witness ==
    /\ pc = "done"
    /\ texts = <<<<LHello, LSajin>>>>
    /\ Len(Events(chatData)) = 2
    /\ Events(chatData)[1].sender = <<"A">>
    /\ Events(chatData)[2].sender = <<"B">>

\* a trimmed line that no pattern matches
MatchesNoPattern(line) ==
    /\ ~IsBlank(line)
    /\ ~IsHeaderOrSeparator(line)
    /\ ~messagePattern(line).ok

\* C22: a line that matches no pattern while no message is open is discarded: the
\* step leaves events, title, saveDate, currentDate and currentMessage as they were;
\* and every Message event comes from a line that matches the message pattern.
C22_UnmatchedLineDiscarded ==
    /\ [][InLoop /\ currentMessage = Null /\ MatchesNoPattern(CurLine) =>
            /\ chatData' = chatData
            /\ currentDate' = currentDate
            /\ currentMessage' = Null]_vars
    /\ [](\A n \in 1..Len(Events(chatData)) :
            IsMessage(Events(chatData)[n]) => messagePattern(LineAt(origin[n])).ok)

\* a date separator, "world", "[A] [10:00] hello": the unmatched line after the
\* separator was dropped and the date was kept for the message
C22_Witness ==
    /\ pc = "done"
    /\ texts = <<<<LDate, LWorld, LHello>>>>
    /\ Len(Events(chatData)) = 2
    /\ IsDateMarker(Events(chatData)[1])
    /\ Events(chatData)[2].content = <<"hello">>
    /\ Events(chatData)[2].date = Events(chatData)[1].date

\* C23: a continuation line is appended to the open message as a newline followed by
\* the physical line as it is in the input, leading and trailing white space kept,
\* and the messageType is recomputed from the new content.
C23_ContinuationKeepsRawLine ==
    [][InLoop /\ currentMessage # Null /\ MatchesNoPattern(CurLine) =>
          /\ currentMessage'.content = currentMessage.content \o <<"\n">> \o lines[i]
          /\ currentMessage'.messageType = detectMessageType(currentMessage'.content)]_vars

-----------------------------------------------------------------------------
(* The viewer with the duplicate-processing guard (src/unnamed/part_000, part_001) *)

\* what a processFile call leaves alone before its await
GuardedFrame ==
    UNCHANGED <<parserVars, classifierVars, statsVars, running, currentChatData,
                availableDates, users, currentUser, dom, results, chatInfo, containerShown,
                timers, buttons, searchVars, fontVars>>

\* GuardedProcessFile without the test of isProcessingFile
GuardedProcessFileUnguarded(text, valid) ==
    /\ Idle
    /\ Len(files) < MaxUploads
    /\ files' = Append(files, [text |-> text, overlapping |-> pending])
    /\ obtained' = Append(obtained, Null)
    /\ IF ~valid
       THEN /\ performed' = Append(performed, <<"showError(file)">>)
            /\ error' = "file"
            /\ isProcessingFile' = FALSE
            /\ UNCHANGED <<pending, loading>>
       ELSE /\ performed' = Append(performed, <<>>)
            /\ isProcessingFile' = TRUE
            /\ loading' = TRUE
            /\ error' = "hidden"
            /\ pending' = pending \cup {Len(files) + 1}
    /\ GuardedFrame

\* processFile(file) up to await this.readFile(file) (part_000:158-177, part_001:112-131);
\* valid is what validateFile(file) returns (part_000:209-223)
GuardedProcessFile(text, valid) ==
    /\ Idle
    /\ Len(files) < MaxUploads
    /\ files' = Append(files, [text |-> text, overlapping |-> pending])
    /\ obtained' = Append(obtained, Null)
    /\ IF isProcessingFile
       THEN /\ performed' = Append(performed, <<"return">>)
            /\ UNCHANGED <<pending, loading, error, isProcessingFile>>
       ELSE IF ~valid
       THEN /\ performed' = Append(performed, <<"showError(file)">>)
            /\ error' = "file"
            /\ isProcessingFile' = FALSE
            /\ UNCHANGED <<pending, loading>>
       ELSE /\ performed' = Append(performed, <<>>)
            /\ isProcessingFile' = TRUE
            /\ loading' = TRUE
            /\ error' = "hidden"
            /\ pending' = pending \cup {Len(files) + 1}
    /\ GuardedFrame

\* GuardedReadFailed without the finally block
GuardedReadFailedNoFinally(k) ==
    /\ Idle
    /\ k \in pending
    /\ pending' = pending \ {k}
    /\ error' = "processing"
    /\ performed' = [performed EXCEPT ![k] = <<"showError(processing)">>]
    /\ UNCHANGED <<parserVars, classifierVars, statsVars, files, running, currentChatData,
                   obtained, availableDates, users, currentUser, dom, results, chatInfo,
                   containerShown, timers, buttons, loading, uiVars>>

\* reader.onerror: the promise of readFile is rejected (part_000:230-240) and processFile
\* goes to its catch and finally blocks (part_000:195-201)
GuardedReadFailed(k) ==
    /\ Idle
    /\ k \in pending
    /\ pending' = pending \ {k}
    /\ error' = "processing"
    /\ performed' = [performed EXCEPT ![k] = <<"showError(processing)">>]
    /\ loading' = FALSE
    /\ isProcessingFile' = FALSE
    /\ UNCHANGED <<parserVars, classifierVars, statsVars, files, running, currentChatData,
                   obtained, availableDates, users, currentUser, dom, results, chatInfo,
                   containerShown, timers, buttons, searchVars, fontVars>>

\* processFile from the assignment of the parse result to the end (part_000:180-201):
\* the flag is reset on the invalid-data return and in the finally block
GuardedAfterParse ==
    /\ ProcessFileRest
    /\ isProcessingFile' = FALSE
    /\ UNCHANGED <<searchVars, fontVars>>

GuardedStartUpload == \E text \in FileSet, valid \in BOOLEAN : GuardedProcessFile(text, valid)
GuardedFailRead == \E k \in pending : GuardedReadFailed(k)

NextGuarded ==
    \/ GuardedStartUpload
    \/ FinishRead
    \/ GuardedFailRead
    \/ BlankLine
    \/ TitleLine
    \/ SaveDateLine
    \/ DateLine
    \/ HeaderLine
    \/ ContinuationLine
    \/ DiscardLine
    \/ Return
    \/ GuardedAfterParse

SpecGuarded == Init /\ [][NextGuarded]_vars

\* the for loop of parse seen on its index and its position alone (parser.js:25,
\* 103-108): every iteration, whichever rule handles the line, goes on to the next
\* line, and after the last line parse returns
LoopStep ==
    /\ pc = "loop"
    /\ i' = IF i <= Len(lines) THEN i + 1 ELSE 0
    /\ pc' = IF i <= Len(lines) THEN "loop" ELSE "done"

\* the rest of processFile seen on the running call alone: the code after parse runs
\* to the end of the finally block (main.js:108-127, part_000:180-201)
ProcessFileEnds ==
    /\ running # 0
    /\ pc = "done"
    /\ running' = 0

\* a FileReader that was started fires onload or onerror, and JavaScript that has
\* started running runs to its end: the loop of parse goes on and the rest of
\* processFile follows
SpecGuardedFair ==
    /\ Init
    /\ [][NextGuarded]_vars
    /\ WF_pending(FinishRead \/ GuardedFailRead)
    /\ WF_<<i, pc>>(LoopStep)
    /\ WF_running(ProcessFileEnds)

\* C24: with the guard at most one file is processed at a time: the flag is set exactly
\* while one call is between its await and its end, never two; and a processFile
\* call made while the flag is set returns without reading the file, calling parse
\* or changing currentChatData, the loading indicator or the error message.
C24_OneFileAtATime ==
    /\ [](/\ Cardinality(pending) + (IF running = 0 THEN 0 ELSE 1) <= 1
          /\ isProcessingFile = (pending # {} \/ running # 0))
    /\ [][isProcessingFile /\ Len(files') > Len(files) =>
            /\ UNCHANGED <<pending, running, parserVars, currentChatData, loading, error,
                           isProcessingFile>>
            /\ performed'[Len(files')] = <<"return">>]_vars

\* a second call was made while the first awaited its read, and returned
C24_Witness ==
    /\ Len(files) = 2
    /\ pending = {1}
    /\ isProcessingFile
    /\ performed[2] = <<"return">>
    /\ loading

\* C25: every processFile call that has set isProcessingFile comes to its end: the
\* flag is false again and the loading indicator is hidden, whatever the outcome.
C25_ProcessingEnds == isProcessingFile ~> (~isProcessingFile /\ ~loading)

\* a read that failed and then an upload that was rendered: both calls have ended
\* with the flag reset and the loading indicator hidden
C25_Witness ==
    /\ Len(files) = 2
    /\ performed[1] = <<"showError(processing)">>
    /\ performed[2] = <<"updateChatInfo", "extractAvailableDates", "render",
                        "showChatContainer">>
    /\ ~isProcessingFile
    /\ ~loading

-----------------------------------------------------------------------------
(* The search box and the calendar (main.js:273-665) *)

\* the processFile calls of a behaviour of the search specification
MaxSearchUploads == 1
\* the handleSearch timeouts that may be waiting at one time
MaxPendingSearches == 2
\* how far from the month of today the calendar is moved
MaxMonthSteps == 1

\* "--------------- 2025년 05월 03일 토요일 ---------------"
LDateZero == <<DashRun, " ", "2", "0", "2", "5", Nyeon, " ", "0", "5", Wol, " ",
               "0", "3", Il, " ", "toyoil", " ", DashRun>>
\* "[A] [10:00] (hello"
LParenHello == <<"[", "A", "]", " ", "[", "10:00", "]", " ", "(", "hello">>
\* a chat that begins with a stray line and a blank line, whose date is written with
\* leading zeros and whose message holds a parenthesis
FParen == <<LWorld, LBlank, LTitleMinsu, LDateZero, LParenHello>>
\* "A 님과 카카오톡 대화"
LTitleA == <<"A", " ", TitleMarker>>
\* a chat with A, in which A has sent two messages before the first date line and one
\* after it, and B two messages
FTitleSender == <<LTitleA, LHello, LHello, LDate, LHello, LSajin, LSajin>>
SearchFileSet == {FChat, FParen, FTitleSender}

\* the queries typed into the search box: " ", "HELLO", "(", "x"
SearchQueries == {<<" ">>, <<"HELLO">>, <<"(">>, <<"x">>}

\* new RegExp(`(${query})`, 'gi') (main.js:331) raises a SyntaxError: for a query of
\* words and parentheses, when the parentheses of "(" + query + ")" do not pair up
RegExpThrows(query) ==
    LET src == <<"(">> \o query \o <<")">>
        depth[j \in 0..Len(src)] ==
            IF j = 0 THEN 0
            ELSE IF src[j] = "(" THEN depth[j - 1] + 1
            ELSE IF src[j] = ")" THEN depth[j - 1] - 1
            ELSE depth[j - 1]
    IN \/ depth[Len(src)] # 0
       \/ \E j \in 1..Len(src) : depth[j] < 0

\* searchMessages(query) as the timeout calls it (main.js:295-333): highlightSearchTerm
\* is called for the first message that matches, and what it raises ends the call
SearchCall(data, query) ==
    LET ev == data.messages
        matches == \E n \in 1..Len(ev) :
                       /\ ev[n].type = "message"
                       /\ ev[n].content # <<>>
                       /\ Includes(Lower(ev[n].content), Lower(query))
    IN IF matches /\ RegExpThrows(query)
       THEN [threw |-> TRUE, results |-> <<>>]
       ELSE [threw |-> FALSE, results |-> searchMessages(data, query)]

\* the digits as characters
Digits == <<"0", "1", "2", "3", "4", "5", "6", "7", "8", "9">>

\* String(n).padStart(2, '0') for n below 100
TwoDigits(n) == <<Digits[(n \div 10) + 1], Digits[(n % 10) + 1]>>

\* date.getFullYear() of the calendar's dates, as a string
CalendarYear == <<"2", "0", "2", "5">>

\* formatDateForComparison(date) (main.js:605-607) for a day of a month of 2025
formatDateForComparison(month, day) ==
    CalendarYear \o <<"-">> \o TwoDigits(month) \o <<"-">> \o TwoDigits(day)

\* the days of the months of 2025
DaysInMonth(month) == <<31, 28, 31, 30, 31, 30, 31, 31, 30, 31, 30, 31>>[month]

\* renderCalendar (main.js:542-567) and createDayElement (575-598): the keys of the day
\* elements that get a click listener, the days of the month shown that have data
renderCalendar(month, dates) ==
    {key \in dates : \E day \in 1..DaysInMonth(month) :
                         formatDateForComparison(month, day) = key}

\* dateString.split('-') (main.js:639): the parts between the dashes
SplitDash(key) ==
    LET D == {p \in 1..Len(key) : key[p] = "-"}
        cut[n \in 0..Len(key)] ==
            IF n = 0 THEN <<0>>
            ELSE IF n \in D THEN Append(cut[n - 1], n) ELSE cut[n - 1]
        at == Append(cut[Len(key)], Len(key) + 1)
    IN [n \in 1..(Len(at) - 1) |-> SubSeq(key, at[n] + 1, at[n + 1] - 1)]

\* `${parseInt(digits)}` of a string of digits (main.js:640): the number written
\* without leading zeros
ParseInt(digits) ==
    LET N == {p \in 1..Len(digits) : digits[p] # "0"}
    IN IF N = {} THEN <<"0">> ELSE SubSeq(digits, Min(N), Len(digits))

\* scrollToDate(dateString) (main.js:635-665): the index of the first date event
\* whose date includes the target (-1: none)
scrollToDate(data, key) ==
    LET part == SplitDash(key)
        targetDate == part[1] \o <<Nyeon, " ">> \o ParseInt(part[2]) \o <<Wol, " ">>
                        \o ParseInt(part[3]) \o <<Il>>
        ev == data.messages
        F == {n \in 1..Len(ev) : ev[n].type = "date" /\ Includes(ev[n].date, targetDate)}
    IN IF F = {} THEN -1 ELSE Min(F) - 1

\* what the handlers below leave alone
SearchFrame ==
    UNCHANGED <<parserVars, classifierVars, statsVars, files, pending, running,
                currentChatData, loading, error, performed, obtained, availableDates,
                users, currentUser, dom, chatInfo, containerShown, timers, buttons,
                isProcessingFile, fontVars>>

\* handleSearch(query) (main.js:273-288) with clearSearchResults (415-424),
\* showSearchLoading (429-442) and hideCalendar (521-528)
HandleSearch(query) ==
    /\ Idle
    /\ IF Trim(query) = <<>> \/ currentChatData = "null"
       THEN /\ searchLoading' = FALSE
            /\ resultsShown' = TRUE
            /\ resultsContainer' = "prompt"
            /\ UNCHANGED <<calendarShown, searchTimers>>
       ELSE /\ Len(searchTimers) < MaxPendingSearches
            /\ calendarShown' = FALSE
            /\ resultsShown' = FALSE
            /\ searchLoading' = TRUE
            /\ searchTimers' = Append(searchTimers, query)
            /\ UNCHANGED resultsContainer
    /\ UNCHANGED <<results, searched, calendarMonth, calendarGrid, scrolled>>
    /\ SearchFrame

\* the timeout of handleSearch (main.js:283-287): searchMessages, hideSearchLoading
\* (446-452) and displaySearchResults (374-410); an exception ends the callback
SearchTimeout ==
    /\ Idle
    /\ searchTimers # <<>>
    /\ searchTimers' = Tail(searchTimers)
    /\ LET call == SearchCall(chatData, Head(searchTimers))
       IN /\ searched' = [query |-> Head(searchTimers), log |-> chatData,
                          threw |-> call.threw, results |-> call.results]
          /\ IF call.threw
             THEN UNCHANGED <<results, searchLoading, resultsShown, resultsContainer>>
             ELSE /\ results' = call.results
                  /\ searchLoading' = FALSE
                  /\ resultsShown' = TRUE
                  /\ resultsContainer' = IF call.results = <<>> THEN "none" ELSE "list"
    /\ UNCHANGED <<calendarShown, calendarMonth, calendarGrid, scrolled>>
    /\ SearchFrame

\* toggleCalendar (main.js:493-501) with showCalendar (506-516) and hideCalendar
ToggleCalendar ==
    /\ Idle
    /\ IF ~calendarShown
       THEN /\ resultsShown' = FALSE
            /\ searchLoading' = FALSE
            /\ calendarShown' = TRUE
            /\ calendarGrid' = renderCalendar(calendarMonth, availableDates)
       ELSE /\ calendarShown' = FALSE
            /\ resultsShown' = TRUE
            /\ UNCHANGED <<searchLoading, calendarGrid>>
    /\ UNCHANGED <<results, resultsContainer, searchTimers, searched, calendarMonth, scrolled>>
    /\ SearchFrame

\* the close button of the calendar (main.js:474): hideCalendar (521-528)
CloseCalendar ==
    /\ Idle
    /\ calendarShown
    /\ calendarShown' = FALSE
    /\ resultsShown' = TRUE
    /\ UNCHANGED <<results, searchLoading, resultsContainer, searchTimers, searched,
                   calendarMonth, calendarGrid, scrolled>>
    /\ SearchFrame

\* changeMonth(direction) (main.js:534-537), from a button of the open calendar
ChangeMonth(direction) ==
    /\ Idle
    /\ calendarShown
    /\ calendarMonth + direction \in (TodayMonth - MaxMonthSteps)..(TodayMonth + MaxMonthSteps)
    /\ calendarMonth' = calendarMonth + direction
    /\ calendarGrid' = renderCalendar(calendarMonth', availableDates)
    /\ UNCHANGED <<results, calendarShown, resultsShown, searchLoading, resultsContainer,
                   searchTimers, searched, scrolled>>
    /\ SearchFrame

\* the click listener of a day element (main.js:591): scrollToDate(dateString) (635-665)
ScrollToDate(key) ==
    /\ Idle
    /\ calendarShown
    /\ key \in calendarGrid
    /\ currentChatData # "null"
    /\ LET index == scrollToDate(chatData, key)
       IN /\ scrolled' = [key |-> key, index |-> index,
                          child |-> IF index >= 0 /\ index < Len(dom) THEN index ELSE -1]
          /\ IF index >= 0
             THEN calendarShown' = FALSE /\ resultsShown' = TRUE
             ELSE UNCHANGED <<calendarShown, resultsShown>>
    /\ UNCHANGED <<results, searchLoading, resultsContainer, searchTimers, searched,
                   calendarMonth, calendarGrid>>
    /\ SearchFrame

SearchUpload == Len(files) < MaxSearchUploads /\ \E text \in SearchFileSet : ProcessFile(text)
TypeQuery == \E query \in SearchQueries : HandleSearch(query)
MoveMonth == \E direction \in {-1, 1} : ChangeMonth(direction)
ClickDay == \E key \in calendarGrid : ScrollToDate(key)

NextSearch ==
    \/ SearchUpload
    \/ FinishRead
    \/ FailRead
    \/ BlankLine
    \/ TitleLine
    \/ SaveDateLine
    \/ DateLine
    \/ HeaderLine
    \/ ContinuationLine
    \/ DiscardLine
    \/ Return
    \/ AfterParse
    \/ TypeQuery
    \/ SearchTimeout
    \/ ToggleCalendar
    \/ CloseCalendar
    \/ MoveMonth
    \/ ClickDay

SpecSearch == Init /\ [][NextSearch]_vars

\* a timeout seen on the queue of timeouts alone: once no code is running, the oldest
\* timeout that is due fires (main.js:283)
TimeoutFires ==
    /\ Idle
    /\ searchTimers # <<>>
    /\ searchTimers' = Tail(searchTimers)

\* timeouts that are due fire, and JavaScript that has started running runs to its end
SpecSearchFair ==
    /\ Init
    /\ [][NextSearch]_vars
    /\ WF_searchTimers(TimeoutFires)
    /\ WF_<<i, pc>>(LoopStep)
    /\ WF_running(ProcessFileEnds)

\* C26: the calendar popup and the search-results list are never shown at the same time.
C26_CalendarOrResults == ~(calendarShown /\ resultsShown)

\* C27: every search that handleSearch has started completes: the search-loading
\* indicator is hidden again and the results list shows the matches or the
\* no-results notice.
C27_SearchCompletes ==
    (searchTimers # <<>>) ~>
        (~searchLoading /\ resultsShown /\ resultsContainer \in {"none", "list"})

\* the events a search for query is to return: the positions of the Message events
\* whose non-empty content contains the query, case ignored
Matching(log, query) ==
    {n \in 1..Len(Events(log)) :
        /\ IsMessage(Events(log)[n])
        /\ Events(log)[n].content # <<>>
        /\ Includes([k \in 1..Len(Events(log)[n].content) |-> ToLower(Events(log)[n].content[k])],
                    [k \in 1..Len(query) |-> ToLower(query[k])])}

\* C28: searchMessages returns exactly the Message events whose non-empty content
\* contains the query, case ignored, each once and newest first, index being the
\* position of the event among all events counted from 0.
C28_SearchReturnsMatches ==
    searched # Null =>
        /\ ~searched.threw
        /\ {searched.results[k].index + 1 : k \in 1..Len(searched.results)}
             = Matching(searched.log, searched.query)
        /\ \A k \in 1..Len(searched.results) :
              /\ k > 1 => searched.results[k].index < searched.results[k - 1].index
              /\ searched.results[k].index + 1 \in 1..Len(Events(searched.log))
              /\ LET event == Events(searched.log)[searched.results[k].index + 1]
                 IN /\ IsMessage(event)
                    /\ searched.results[k].sender = event.sender
                    /\ searched.results[k].content = event.content

\* C30: calendar dates round-trip: scrollToDate called with a key of the calendar
\* finds a date marker and scrolls to it.
C30_DateKeysRoundTrip == scrolled # Null => scrolled.index >= 0 /\ scrolled.child >= 0

\* child is the element that render makes for event
ElementOf(child, event) ==
    IF IsDateMarker(event)
    THEN child.type = "date" /\ child.date = event.date
    ELSE child.type = "message" /\ child.sender = event.sender
                                /\ child.content = event.content

\* C29: whenever the chat is displayed and no code is running, the chat container has
\* one child for every event of currentChatData, in the order of the events, child n
\* being the element of event n; so the index of every search result is the position
\* of the element of that message, and the position at which scrollToDate finds a
\* date marker is the position of the element of that marker.
C29_ChildPerEvent ==
    (containerShown /\ Idle) =>
        /\ currentChatData = "chatData"
        /\ Len(dom) = Len(Events(chatData))
        /\ \A n \in 1..Len(dom) : ElementOf(dom[n], Events(chatData)[n])
        /\ \A k \in 1..Len(results) :
              /\ results[k].index + 1 \in 1..Len(dom)
              /\ dom[results[k].index + 1].type = "message"
              /\ dom[results[k].index + 1].sender = results[k].sender
              /\ dom[results[k].index + 1].content = results[k].content
        /\ \A key \in availableDates :
              scrollToDate(chatData, key) >= 0 =>
                  /\ scrollToDate(chatData, key) + 1 \in 1..Len(dom)
                  /\ dom[scrollToDate(chatData, key) + 1].type = "date"

\* two uploads, a search made between them and a switch of user after them: the
\* results of the search still address the bubbles of their messages
C29_Witness ==
    /\ containerShown
    /\ Idle
    /\ Len(files) = 2
    /\ Len(returned) = 2
    /\ Len(results) > 0
    /\ Len(Events(chatData)) > Len(Events(returned[1].log))
    /\ \E n \in 1..Len(dom) : dom[n].type = "date"
    /\ \E n \in 1..Len(dom) : dom[n].type = "message" /\ dom[n].mine
    /\ \E n \in 1..Len(dom) : dom[n].type = "message" /\ ~dom[n].mine

-----------------------------------------------------------------------------
(* The user whose messages are on the right *)

\* the names of the title header lines "<name> 님과 카카오톡 대화" of a text
TitleNames(text) ==
    {SubSeq(text[j], 1, Len(text[j]) - 2) :
        j \in {j \in 1..Len(text) :
                 /\ Len(text[j]) >= 3
                 /\ SubSeq(text[j], Len(text[j]) - 1, Len(text[j])) = <<" ", TitleMarker>>}}

\* C33: on the initial render of a chat parsed from an export whose title line is
\* "<name> 님과 카카오톡 대화", <name> being one of at least two senders, currentUser is
\* the sender other than <name> with the most messages, and never <name>.
C33_TitlePersonIsOtherParty ==
    (/\ Idle
     /\ Len(files) = 1
     /\ obtained[1] # Null
     /\ Len(performed[1]) >= 3
     /\ performed[1][3] = "render"
     /\ containerShown) =>
        LET messages == OfType(Events(obtained[1].log), "message")
        IN \A name \in TitleNames(files[1].text) :
              (name \in Senders(messages) /\ Cardinality(Senders(messages)) >= 2) =>
                  /\ currentUser # name
                  /\ currentUser \in Senders(messages)
                  /\ \A other \in Senders(messages) \ {name} :
                        CountFrom(messages, currentUser) >= CountFrom(messages, other)

\* users lists every sender of messages once, with the number of its messages, a
\* larger number never after a smaller one
ListsSenders(list, messages) ==
    /\ Len(list) = Cardinality(Senders(messages))
    /\ {list[n].name : n \in 1..Len(list)} = Senders(messages)
    /\ \A n \in 1..Len(list) :
          /\ list[n].messageCount = CountFrom(messages, list[n].name)
          /\ n < Len(list) => list[n].messageCount >= list[n + 1].messageCount

\* C34: once a chat with at least one message is displayed, users lists every distinct
\* sender exactly once with its message count, in non-increasing order of the counts,
\* and currentUser is the name of one of them; a click on a user button changes
\* currentUser to the name of that button and nothing else changes currentUser
\* between two uploads; the re-render after a switch changes neither users nor the
\* counts nor currentUser.
C34_UsersAndCurrentUser ==
    /\ [](LET messages == OfType(Events(chatData), "message")
          IN (containerShown /\ Idle /\ messages # <<>>) =>
                /\ ListsSenders(users, messages)
                /\ \E n \in 1..Len(users) : users[n].name = currentUser)
    /\ [][/\ (running = 0 /\ currentUser' # currentUser) =>
              /\ ~buttons.disabled
              /\ \E n \in 1..Len(buttons.names) : buttons.names[n] = currentUser'
              /\ timers' = timers + 1
              /\ users' = users
          /\ timers' < timers =>
              /\ users' = users
              /\ currentUser' = currentUser
              /\ dom' = RenderAll(chatData, currentUser)]_vars

\* a chat of two senders after a click on the button of the second user and the
\* re-render that follows it: the messages of the second user are on the right
C34_Witness ==
    /\ containerShown
    /\ Idle
    /\ timers = 0
    /\ Len(users) = 2
    /\ users[1].messageCount > users[2].messageCount
    /\ currentUser = users[2].name
    /\ ~buttons.disabled
    /\ \E n \in 1..Len(dom) : dom[n].type = "message" /\ dom[n].mine
                                /\ dom[n].sender = users[2].name

-----------------------------------------------------------------------------
(* The groups of bubbles (renderer.js:309-393) *)

\* the viewer with its user buttons, given the files of the search specification, one
\* of which has runs of messages of one sender; the processFile calls of a behaviour
MaxBubbleUploads == 2

BubbleUpload == Len(files) < MaxBubbleUploads /\ \E text \in SearchFileSet : ProcessFile(text)

NextBubbles ==
    \/ BubbleUpload
    \/ FinishRead
    \/ FailRead
    \/ BlankLine
    \/ TitleLine
    \/ SaveDateLine
    \/ DateLine
    \/ HeaderLine
    \/ ContinuationLine
    \/ DiscardLine
    \/ Return
    \/ AfterParse
    \/ Click
    \/ Rerender

SpecBubbles == Init /\ [][NextBubbles]_vars

\* events a..b are a maximal run of adjacent messages of one sender
MaximalRun(events, a, b) ==
    /\ a <= b
    /\ \A n \in a..b : IsMessage(events[n]) /\ events[n].sender = events[a].sender
    /\ a > 1 => ~(IsMessage(events[a - 1]) /\ events[a - 1].sender = events[a].sender)
    /\ b < Len(events) =>
          ~(IsMessage(events[b + 1]) /\ events[b + 1].sender = events[b].sender)

\* the chat is displayed, no code is running, no switch of user waits for its
\* re-render and the container holds the bubbles of the events
Displayed ==
    /\ containerShown
    /\ Idle
    /\ timers = 0
    /\ Len(dom) = Len(Events(chatData))

\* C35: in every maximal run of adjacent messages of one sender with no date marker
\* between them, exactly the first message is drawn as the first of its group, with
\* the name and the profile of the sender shown, and exactly the last as the last of
\* its group, with the time shown.
C35_GroupsShowNameAndTime ==
    Displayed =>
        \A a, b \in 1..Len(dom) :
            MaximalRun(Events(chatData), a, b) =>
                \A n \in a..b :
                    /\ dom[n].isFirstInGroup = (n = a)
                    /\ dom[n].nameShown = (n = a)
                    /\ dom[n].profileShown = (n = a)
                    /\ dom[n].isLastInGroup = (n = b)
                    /\ dom[n].timeShown = (n = b)

\* C35 as the code has it: in every maximal run of adjacent messages of one sender
\* with no date marker between them, exactly the first message is the first of its
\* group and exactly the last is the last of its group; the time is shown on the last
\* message of the run and on no other; the name and the profile of the sender are
\* shown on the first message of a run of another user and on no other message, and
\* on no message of the current user.
C35_GroupsOfOtherUsersShowName ==
    Displayed =>
        \A a, b \in 1..Len(dom) :
            MaximalRun(Events(chatData), a, b) =>
                \A n \in a..b :
                    /\ dom[n].isFirstInGroup = (n = a)
                    /\ dom[n].isLastInGroup = (n = b)
                    /\ dom[n].timeShown = (n = b)
                    /\ dom[n].mine = (dom[n].sender = currentUser)
                    /\ dom[n].nameShown = (~dom[n].mine /\ n = a)
                    /\ dom[n].profileShown = (~dom[n].mine /\ n = a)

\* two messages of A, a date marker, a message of A and two messages of B, displayed
\* after a click on the button of B: the runs of A are groups on the left, the run of
\* B is a group on the right
C35_Witness ==
    /\ Displayed
    /\ timers = 0
    /\ currentUser = <<"B">>
    /\ Len(dom) = 6
    /\ MaximalRun(Events(chatData), 1, 2)
    /\ IsDateMarker(Events(chatData)[3])
    /\ MaximalRun(Events(chatData), 4, 4)
    /\ MaximalRun(Events(chatData), 5, 6)
    /\ dom[1].nameShown /\ ~dom[1].timeShown
    /\ ~dom[2].nameShown /\ dom[2].timeShown
    /\ dom[4].nameShown /\ dom[4].timeShown
    /\ dom[5].mine /\ ~dom[5].timeShown
    /\ dom[6].mine /\ dom[6].timeShown

-----------------------------------------------------------------------------
(* The font-size buttons (src/unnamed/part_000:806-980) *)

\* the timeouts of the indicator's animation that may be waiting at one time: a
\* timeout of 400 ms is set 300 ms or more after the one before it
MaxIndicatorTimers == 2

\* const fontSizes = [10, 12, 14, 16, 18, 20, 22, 24] (part_000:831, 850)
fontSizes == <<10, 12, 14, 16, 18, 20, 22, 24>>

\* fontSizes.indexOf(size), from 0 (-1: not an element)
IndexOf(size) ==
    IF \E k \in 1..Len(fontSizes) : fontSizes[k] = size
    THEN (CHOOSE k \in 1..Len(fontSizes) : fontSizes[k] = size) - 1
    ELSE -1

\* n.toString() and `${n}` of a number from 0 to 99
NumberToString(n) ==
    IF n < 10 THEN <<Digits[n + 1]>> ELSE <<Digits[(n \div 10) + 1], Digits[(n % 10) + 1]>>

\* the value of a decimal digit
DigitValue(c) == (CHOOSE k \in 1..10 : Digits[k] = c) - 1

\* parseInt(str) of a string that begins with a digit: the number written by the
\* digits it begins with
ParseIntNumber(str) ==
    LET N == {p \in 1..Len(str) : ~IsDigit(str[p])}
        last == IF N = {} THEN Len(str) ELSE Min(N) - 1
        value[k \in 0..last] == IF k = 0 THEN 0 ELSE 10 * value[k - 1] + DigitValue(str[k])
    IN value[last]

\* showFontSizeLoading with the buttons left enabled
showFontSizeLoadingButtonsEnabled ==
    [disabled |-> FALSE, decreaseDimmed |-> TRUE, increaseDimmed |-> TRUE]

\* the buttons after showFontSizeLoading() (part_000:868-891): both disabled and dimmed
showFontSizeLoading ==
    [disabled |-> TRUE, decreaseDimmed |-> TRUE, increaseDimmed |-> TRUE]

\* the buttons after updateButtonStates() (part_000:957-980) for the size given
updateButtonStates(size) ==
    [fontButtons EXCEPT !.decreaseDimmed = (size <= 10), !.increaseDimmed = (size >= 24)]

\* updateFontSize() (part_000:929-952) for the size given: the class, the indicator,
\* the item of localStorage and the buttons
updateFontSize(size) ==
    /\ fontClass' = <<"font-size-">> \o NumberToString(size)
    /\ indicatorText' = NumberToString(size)
    /\ fontStorage' = NumberToString(size)

\* what the font-size operations leave alone
FontFrame ==
    UNCHANGED <<parserVars, classifierVars, statsVars, files, pending, running,
                currentChatData, loading, error, performed, obtained, availableDates,
                users, currentUser, dom, results, chatInfo, containerShown, timers,
                buttons, isProcessingFile, searchVars>>

\* the page is loaded again: the part of the constructor that sets up the font size
\* (part_000:88-90) with initFontSizeControls (806-825), on a new page, the timeouts of
\* the page before it being gone
LoadPage ==
    /\ Idle
    /\ fontLoaded' = fontStorage
    /\ lastFontCall' = "load"
    /\ IF fontStorage # <<>>
       THEN /\ updateFontSize(ParseIntNumber(fontStorage))
            /\ fontButtons' = [disabled |-> FALSE,
                               decreaseDimmed |-> ParseIntNumber(fontStorage) <= 10,
                               increaseDimmed |-> ParseIntNumber(fontStorage) >= 24]
       ELSE /\ fontClass' = <<>>
            /\ indicatorText' = <<>>
            /\ fontButtons' = [disabled |-> FALSE, decreaseDimmed |-> FALSE,
                               increaseDimmed |-> FALSE]
            /\ UNCHANGED fontStorage
    /\ currentFontSize' = 14
    /\ fontLoading' = FALSE
    /\ indicatorColor' = "page"
    /\ fontTimers' = 0
    /\ indicatorTimers' = 0
    /\ FontFrame

\* decreaseFontSize() (part_000:830-844), the click handler of a button that is not
\* disabled
DecreaseFontSize ==
    /\ Idle
    /\ ~fontButtons.disabled
    /\ lastFontCall' = "decrease"
    /\ IF IndexOf(currentFontSize) > 0
       THEN /\ fontButtons' = showFontSizeLoading
            /\ fontLoading' = TRUE
            /\ currentFontSize' = fontSizes[IndexOf(currentFontSize)]
            /\ fontTimers' = fontTimers + 1
       ELSE UNCHANGED <<fontButtons, fontLoading, currentFontSize, fontTimers>>
    /\ UNCHANGED <<fontClass, indicatorText, fontStorage, indicatorColor, indicatorTimers,
                   fontLoaded>>
    /\ FontFrame

\* increaseFontSize() (part_000:849-863), the click handler of a button that is not
\* disabled
IncreaseFontSize ==
    /\ Idle
    /\ ~fontButtons.disabled
    /\ lastFontCall' = "increase"
    /\ IF IndexOf(currentFontSize) < Len(fontSizes) - 1
       THEN /\ fontButtons' = showFontSizeLoading
            /\ fontLoading' = TRUE
            /\ currentFontSize' = fontSizes[IndexOf(currentFontSize) + 2]
            /\ fontTimers' = fontTimers + 1
       ELSE UNCHANGED <<fontButtons, fontLoading, currentFontSize, fontTimers>>
    /\ UNCHANGED <<fontClass, indicatorText, fontStorage, indicatorColor, indicatorTimers,
                   fontLoaded>>
    /\ FontFrame

\* the timeout of a change (part_000:839-842, 858-861): updateFontSize() and
\* hideFontSizeLoading() (896-924), which starts the animation of the indicator
FontTimeout ==
    /\ Idle
    /\ fontTimers > 0
    /\ indicatorTimers < MaxIndicatorTimers
    /\ fontTimers' = fontTimers - 1
    /\ lastFontCall' = "timeout"
    /\ updateFontSize(currentFontSize)
    /\ fontButtons' = [updateButtonStates(currentFontSize) EXCEPT !.disabled = FALSE]
    /\ fontLoading' = FALSE
    /\ indicatorColor' = "green"
    /\ indicatorTimers' = indicatorTimers + 1
    /\ UNCHANGED <<currentFontSize, fontLoaded>>
    /\ FontFrame

\* the timeout of the animation (part_000:910-913): the indicator is gray again
IndicatorTimeout ==
    /\ Idle
    /\ indicatorTimers > 0
    /\ indicatorTimers' = indicatorTimers - 1
    /\ indicatorColor' = "gray"
    /\ lastFontCall' = "animation"
    /\ UNCHANGED <<currentFontSize, fontClass, indicatorText, fontStorage, fontButtons,
                   fontLoading, fontTimers, fontLoaded>>
    /\ FontFrame

NextFont ==
    \/ LoadPage
    \/ DecreaseFontSize
    \/ IncreaseFontSize
    \/ FontTimeout
    \/ IndicatorTimeout

SpecFont == Init /\ [][NextFont]_vars

\* the size applied to the chat, by the class of the container and by the indicator,
\* is size
Applied(size) ==
    /\ fontClass = <<"font-size-">> \o NumberToString(size)
    /\ indicatorText = NumberToString(size)

\* C31: the font size saved in local storage is restored at start-up: when the page is
\* loaded with a saved size s, currentFontSize equals s after the load, and in every
\* state with no change of size pending the size applied to the chat equals
\* currentFontSize.
C31_SavedSizeRestored ==
    fontLoaded # <<>> =>
        /\ lastFontCall = "load" => currentFontSize = ParseIntNumber(fontLoaded)
        /\ fontTimers = 0 => Applied(currentFontSize)

\* C32: currentFontSize is always one of 10, 12, 14, 16, 18, 20, 22, 24; a decrease
\* moves it to the next smaller of them and does nothing at 10, an increase moves it to
\* the next larger and does nothing at 24; while a change is pending the buttons are
\* disabled, and no change of currentFontSize by a button begins while one is pending.
C32_SizesAndSteps ==
    /\ [](/\ currentFontSize \in {10, 12, 14, 16, 18, 20, 22, 24}
          /\ fontTimers > 0 => fontButtons.disabled)
    /\ [][/\ (lastFontCall' = "decrease" /\ lastFontCall # "decrease") =>
                currentFontSize' = IF currentFontSize = 10 THEN 10 ELSE currentFontSize - 2
          /\ (lastFontCall' = "increase" /\ lastFontCall # "increase") =>
                currentFontSize' = IF currentFontSize = 24 THEN 24 ELSE currentFontSize + 2
          /\ (lastFontCall' \in {"decrease", "increase"}
                /\ currentFontSize' # currentFontSize) =>
                /\ fontTimers = 0
                /\ ~fontButtons.disabled
                /\ fontTimers' = 1
                /\ fontButtons'.disabled
          /\ lastFontCall' \in {"timeout", "animation"} =>
                currentFontSize' = currentFontSize]_vars

\* the size has been decreased to 10 and applied, and a further click on the decrease
\* button has changed nothing
C32_Witness ==
    /\ lastFontCall = "decrease"
    /\ currentFontSize = 10
    /\ fontTimers = 0
    /\ ~fontButtons.disabled
    /\ fontButtons.decreaseDimmed
    /\ Applied(10)

-----------------------------------------------------------------------------
(* The kind of a message that grows *)

\* C36: link classification is stable under growth: once the open message is a link,
\* it stays a link at every further continuation line and blank line, whatever the
\* text of the line, for as long as it is the open message.
C36_LinkStaysLink ==
    [][(/\ currentMessage # Null
        /\ currentMessage.messageType = "link"
        /\ currentMessage' # Null
        /\ curOrigin' = curOrigin)
       => currentMessage'.messageType = "link"]_vars

\* "[A] [10:00] hello", "  https://a.pdf ", "world": the message became a link at its
\* second line and was pushed a link after a third line with no link in it
C36_Witness ==
    /\ pc = "done"
    /\ texts = <<<<LHello, LLink, LWorld>>>>
    /\ Len(Events(chatData)) = 1
    /\ Events(chatData)[1].messageType = "link"
    /\ Events(chatData)[1].content
         = <<"hello", "\n", "https://", "a", ".", "pdf", "\n", "world">>

=============================================================================
